---- MODULE Spec2Model ----
(***************************************************************************)
(* Inventory API: the low-stock alert evaluator (Product.GenerateAlert),   *)
(* the concurrent alert generator                                          *)
(* (ProductService.GenerateAlertsWithConcurrency) and the GenerateAlerts   *)
(* HTTP handler that calls it.                                             *)
(*                                                                         *)
(* Spec      one server handling alert-generation calls over a product     *)
(*           table: the caller goroutine, one evaluation goroutine per     *)
(*           snapshot product, the goroutine that closes the channel.      *)
(* FairSpec  Spec with the Go scheduler's fairness: every runnable         *)
(*           goroutine eventually runs.                                    *)
(* SpecEval  Product.GenerateAlert applied to products and thresholds      *)
(*           drawn from bounded ranges.                                    *)
(***************************************************************************)
EXTENDS Integers, Sequences, FiniteSets, TLC

(***************************************************************************)
(* Bounds of the model.                                                    *)
(***************************************************************************)
\* The largest number of rows of the products table.
MaxProducts == 2
\* Product.GenerateAlert is applied to quantities -1..MaxEvalQuantity
MaxEvalQuantity == 6
\* ... and to thresholds -3..MaxEvalThreshold,
MaxEvalThreshold == 7
\* ... at most MaxEvalCalls times to the same product and threshold.
MaxEvalCalls == 2

\* Quantities of the rows of the products table: out of stock, and exactly
\* the default threshold (below the threshold 7 of Params).
Quantities == {0, 5}
\* Thresholds a caller passes to GenerateAlertsWithConcurrency directly.
Thresholds == {-3, 0, 5}
\* Values of the threshold query parameter, as character sequences; <<>> is
\* the absent (empty) parameter.
Params == {<<>>, <<"a">>, <<"0">>, <<"-", "3">>, <<"7">>}
\* Readings of the wall clock (time.Now()).
Times == {1, 2}

(***************************************************************************)
(* Program constants.                                                      *)
(***************************************************************************)
DefaultThreshold == 5
HandlerDefaultThreshold == 5
StatusOK == 200
StatusInternalServerError == 500

\* A nil pointer / an absent value; a non-nil pointer to v is <<v>>.
Nil == <<>>
Ptr(v) == <<v>>
Deref(ptr) == ptr[1]

(***************************************************************************)
(* models.Product and models.ProductAlert                                  *)
(***************************************************************************)
NameOf(id) == <<"product", id>>
CategoryOf(id) == <<"category", id>>

\* A row of the products table.
Product(id, q) ==
    [ID |-> id, Name |-> NameOf(id), Category |-> CategoryOf(id),
     Quantity |-> q, Deleted |-> FALSE]

\* The zero value of models.Product.
ZeroProduct ==
    [ID |-> 0, Name |-> <<>>, Category |-> <<>>, Quantity |-> 0, Deleted |-> FALSE]

IsLowStock_AtThreshold(p, threshold) == p.Quantity <= threshold

IsLowStock_InStockOnly(p, threshold) == 0 < p.Quantity /\ p.Quantity < threshold

\* func (p *Product) IsLowStock(threshold int) bool
IsLowStock(p, threshold) == p.Quantity < threshold

Severity_HighFirst(p) ==
    IF p.Quantity <= 2 THEN "high"
    ELSE IF p.Quantity = 0 THEN "critical"
    ELSE "low"

Severity_HighBelowTwo(p) ==
    IF p.Quantity = 0 THEN "critical"
    ELSE IF p.Quantity < 2 THEN "high"
    ELSE "low"

\* The severity bands of GenerateAlert, in the order the code tests them.
Severity(p) ==
    IF p.Quantity = 0 THEN "critical"
    ELSE IF p.Quantity <= 2 THEN "high"
    ELSE "low"

Message_HighUpToThree(p) ==
    IF p.Quantity = 0 THEN "Product out of stock"
    ELSE IF p.Quantity <= 3 THEN "Critical stock level"
    ELSE "Stock below threshold"

Message_HighFirst(p) ==
    IF p.Quantity <= 2 THEN "Critical stock level"
    ELSE IF p.Quantity = 0 THEN "Product out of stock"
    ELSE "Stock below threshold"

\* The message GenerateAlert assigns together with each severity.
Message(p) ==
    IF p.Quantity = 0 THEN "Product out of stock"
    ELSE IF p.Quantity <= 2 THEN "Critical stock level"
    ELSE "Stock below threshold"

GenerateAlert_OutOfStockFirst(p, threshold, now) ==
    IF p.Quantity # 0 /\ ~IsLowStock(p, threshold) THEN Nil
    ELSE Ptr([ProductID |-> p.ID, Name |-> p.Name, Category |-> p.Category,
              Quantity |-> p.Quantity, Threshold |-> threshold,
              Severity |-> Severity(p), Message |-> Message(p),
              GeneratedAt |-> now])

GenerateAlert_TimeInMessage(p, threshold, now) ==
    IF ~IsLowStock(p, threshold) THEN Nil
    ELSE Ptr([ProductID |-> p.ID, Name |-> p.Name, Category |-> p.Category,
              Quantity |-> p.Quantity, Threshold |-> threshold,
              Severity |-> Severity(p), Message |-> <<Message(p), now>>,
              GeneratedAt |-> now])

\* func (p *Product) GenerateAlert(threshold int) *ProductAlert, with the
\* reading of time.Now() as now.
GenerateAlert(p, threshold, now) ==
    IF ~IsLowStock(p, threshold) THEN Nil
    ELSE Ptr([ProductID |-> p.ID, Name |-> p.Name, Category |-> p.Category,
              Quantity |-> p.Quantity, Threshold |-> threshold,
              Severity |-> Severity(p), Message |-> Message(p),
              GeneratedAt |-> now])

(***************************************************************************)
(* strconv.Atoi as the handlers use it: an optional sign and decimal       *)
(* digits. [ok |-> FALSE] is a non-nil error.                              *)
(***************************************************************************)
DigitVal ==
    [c \in {"0", "1", "2", "3", "4", "5", "6", "7", "8", "9"} |->
        CASE c = "0" -> 0 [] c = "1" -> 1 [] c = "2" -> 2 [] c = "3" -> 3
          [] c = "4" -> 4 [] c = "5" -> 5 [] c = "6" -> 6 [] c = "7" -> 7
          [] c = "8" -> 8 [] c = "9" -> 9]

RECURSIVE ParseDigits(_, _)
\* The value of the digit string s after the prefix of value acc; -1 when a
\* character is no digit.
ParseDigits(s, acc) ==
    IF s = <<>> THEN acc
    ELSE IF Head(s) \notin DOMAIN DigitVal THEN -1
    ELSE ParseDigits(Tail(s), acc * 10 + DigitVal[Head(s)])

Atoi(s) ==
    LET signed == s # <<>> /\ Head(s) \in {"+", "-"}
        digits == IF signed THEN Tail(s) ELSE s
        n == ParseDigits(digits, 0)
    IN  IF digits = <<>> \/ n < 0 THEN [ok |-> FALSE, val |-> 0]
        ELSE [ok |-> TRUE, val |-> IF signed /\ Head(s) = "-" THEN 0 - n ELSE n]

\* The threshold the GenerateAlerts handler passes on, from the threshold
\* query parameter.
HandlerThreshold(param) ==
    IF param # <<>> /\ Atoi(param).ok /\ Atoi(param).val > 0 THEN Atoi(param).val
    ELSE HandlerDefaultThreshold

(***************************************************************************)
(* State                                                                   *)
(***************************************************************************)
VARIABLES
    store,          \* the rows of the products table, in primary-key order
    pc,             \* where the goroutine serving the call stands
    entry,          \* "http": called by the GenerateAlerts handler; "direct"
    reqParam,       \* the threshold query parameter of the request
    hThreshold,     \* GenerateAlerts' local threshold
    argThreshold,   \* the threshold GenerateAlertsWithConcurrency was called with
    threshold,      \* GenerateAlertsWithConcurrency's parameter threshold
    products,       \* the local slice products (the snapshot)
    product,        \* the range variable of the dispatch loop
    idx,            \* how many iterations of the dispatch loop have run
    alertsChan,     \* the channel: whether made, its buffer, capacity, closed
    wg,             \* the sync.WaitGroup's counter
    units,          \* the evaluation goroutines, in dispatch order
    closer,         \* where the goroutine that closes the channel stands
    alerts,         \* the local slice alerts
    ret,            \* what GenerateAlertsWithConcurrency returned
    response,       \* the HTTP response of the handler
    panicked,       \* a goroutine panicked (send on / close of a closed channel)
    evaluated,      \* per product id, how often GenerateAlert ran in this call
    fetches,        \* how often this call read the products table
    evalProduct,    \* SpecEval: the receiver of GenerateAlert
    evalThreshold,  \* SpecEval: its argument
    evalResults,    \* SpecEval: the results of the calls made so far
    recorded,       \* SpecRuns: an earlier call's snapshot, threshold and result
    env,            \* the process environment (JWT_SECRET)
    exchange,       \* SpecHTTP: the last request routed and how it was answered
    calls,          \* per goroutine, the product service call it is executing
    written,        \* per product id, the name and category last written
    stats,          \* the GetInventoryStats call: where it stands, its locals
    users,          \* the rows of the users table
    regs,           \* per goroutine, the registration request it is serving
    other           \* the locals of a second call of the alert generator

genVars ==
    <<pc, entry, reqParam, hThreshold, argThreshold, threshold, products,
      product, idx, alertsChan, wg, units, closer, alerts, ret, response,
      panicked, evaluated, fetches>>

evalVars == <<evalProduct, evalThreshold, evalResults>>

httpVars == <<env, exchange>>

svcVars == <<calls, written, stats, users, regs, other>>

vars == <<store, genVars, evalVars, recorded, httpVars, svcVars>>

ProductIDs == 1..MaxProducts

\* The tables of n rows with ids 1..n and quantities from Quantities.
StoresOfLen(n) ==
    {[i \in 1..n |-> Product(i, qs[i])] : qs \in [1..n -> Quantities]}

Stores == UNION {StoresOfLen(n) : n \in 0..MaxProducts}

NoChannel == [made |-> FALSE, buf |-> <<>>, cap |-> 0, closed |-> FALSE]

\* No call is running: every local of the handler and of the service is
\* out of scope.
GenIdle ==
    /\ pc = "idle"
    /\ entry = "none"
    /\ reqParam = <<>>
    /\ hThreshold = 0
    /\ argThreshold = 0
    /\ threshold = 0
    /\ products = <<>>
    /\ product = ZeroProduct
    /\ idx = 0
    /\ alertsChan = NoChannel
    /\ wg = 0
    /\ units = <<>>
    /\ closer = "none"
    /\ alerts = <<>>
    /\ ret = Nil
    /\ response = Nil
    /\ panicked = FALSE
    /\ evaluated = [id \in ProductIDs |-> 0]
    /\ fetches = 0

EvalIdle ==
    /\ evalProduct = ZeroProduct
    /\ evalThreshold = 0
    /\ evalResults = <<>>

\* JWT_SECRET is set, and no request has been routed.
HTTPIdle ==
    /\ env = [JWT_SECRET |-> "k1"]
    /\ exchange = Nil

\* The goroutines that serve requests at the same time.
Procs == {1, 2}

NoCall == [op |-> "", pc |-> "idle", product |-> ZeroProduct]

NoStats ==
    [pc |-> "idle", totalProducts |-> 0, lowStockCount |-> 0,
     outOfStockCount |-> 0, categories |-> {}, err |-> Nil]

NoRegistration == [pc |-> "idle", req |-> Nil, status |-> 0, body |-> ""]

\* The locals of a call of the alert generator that has not begun.
NoInvocation ==
    [pc |-> "idle", entry |-> "none", reqParam |-> <<>>, hThreshold |-> 0,
     argThreshold |-> 0, threshold |-> 0, products |-> <<>>,
     product |-> ZeroProduct, idx |-> 0, alertsChan |-> NoChannel, wg |-> 0,
     units |-> <<>>, closer |-> "none", alerts |-> <<>>, ret |-> Nil,
     response |-> Nil, evaluated |-> [id \in ProductIDs |-> 0], fetches |-> 0]

\* No service call other than the alert generator's is running, and the
\* users table is empty.
SvcIdle ==
    /\ calls = [g \in Procs |-> NoCall]
    /\ written = <<>>
    /\ stats = NoStats
    /\ users = <<>>
    /\ regs = [g \in Procs |-> NoRegistration]
    /\ other = NoInvocation

Init ==
    /\ store \in Stores
    /\ GenIdle
    /\ EvalIdle
    /\ recorded = Nil
    /\ HTTPIdle
    /\ SvcIdle

(***************************************************************************)
(* The products table (gorm)                                               *)
(***************************************************************************)
RECURSIVE SelectRows(_, _)
\* The rows of table t that are not soft-deleted, in table order.
SelectRows(t, i) ==
    IF i > Len(t) THEN <<>>
    ELSE IF t[i].Deleted THEN SelectRows(t, i + 1)
    ELSE <<t[i]>> \o SelectRows(t, i + 1)

\* ps.db.Find(&products)
Find(t) == SelectRows(t, 1)

(***************************************************************************)
(* GenerateAlerts (handler) and GenerateAlertsWithConcurrency (service)    *)
(***************************************************************************)
\* GET /products/alerts?threshold=param reaches the handler, which reads
\* the parameter and calls the service.
BeginGenerateAlerts(param) ==
    /\ panicked = FALSE
    /\ pc = "idle"
    /\ pc' = "normalize"
    /\ entry' = "http"
    /\ reqParam' = param
    /\ hThreshold' = HandlerThreshold(param)
    /\ argThreshold' = HandlerThreshold(param)
    /\ threshold' = HandlerThreshold(param)
    /\ UNCHANGED <<store, products, product, idx, alertsChan, wg, units, closer,
                   alerts, ret, response, panicked, evaluated, fetches, evalVars,
                   recorded, env, svcVars>>

\* The request reaches the handler; how it was routed is not looked at.
HandlerGenerateAlerts(param) ==
    /\ BeginGenerateAlerts(param)
    /\ UNCHANGED exchange

\* A caller other than the handler calls the service with threshold t.
CallGenerateAlertsWithConcurrency(t) ==
    /\ panicked = FALSE
    /\ pc = "idle"
    /\ pc' = "normalize"
    /\ entry' = "direct"
    /\ argThreshold' = t
    /\ threshold' = t
    /\ UNCHANGED <<store, reqParam, hThreshold, products, product, idx,
                   alertsChan, wg, units, closer, alerts, ret, response,
                   panicked, evaluated, fetches, evalVars, recorded, httpVars, svcVars>>

EffectiveThreshold_NoDefault(t) == t

\* if threshold <= 0 { threshold = 5 }
EffectiveThreshold(t) == IF t <= 0 THEN DefaultThreshold ELSE t

NormalizeThreshold ==
    /\ panicked = FALSE
    /\ pc = "normalize"
    /\ pc' = "fetch"
    /\ threshold' = EffectiveThreshold(threshold)
    /\ UNCHANGED <<store, entry, reqParam, hThreshold, argThreshold, products,
                   product, idx, alertsChan, wg, units, closer, alerts, ret,
                   response, panicked, evaluated, fetches, evalVars, recorded, httpVars, svcVars>>

\* return nil, fmt.Errorf("failed to fetch products: %w", err)
FetchError == Ptr([alerts |-> Nil, err |-> Ptr("failed to fetch products")])

AfterFetchError_Continue == "make"

\* Where the service goes when ps.db.Find fails: it returns.
AfterFetchError == "return"

\* ps.db.Find(&products): ok, or the store fails.
FetchProducts(ok) ==
    /\ panicked = FALSE
    /\ pc = "fetch"
    /\ fetches' = fetches + 1
    /\ IF ok
       THEN /\ products' = Find(store)
            /\ pc' = "make"
            /\ ret' = ret
       ELSE /\ products' = products
            /\ pc' = AfterFetchError
            /\ ret' = FetchError
    /\ UNCHANGED <<store, entry, reqParam, hThreshold, argThreshold, threshold,
                   product, idx, alertsChan, wg, units, closer, alerts,
                   response, panicked, evaluated, evalVars, recorded, httpVars, svcVars>>

ChanCapacity_Unbuffered(ps) == 0

\* make(chan *models.ProductAlert, len(products))
ChanCapacity(ps) == Len(ps)

MakeChannel ==
    /\ panicked = FALSE
    /\ pc = "make"
    /\ pc' = "loop"
    /\ alertsChan' = [made |-> TRUE, buf |-> <<>>, cap |-> ChanCapacity(products),
                      closed |-> FALSE]
    /\ wg' = 0
    /\ UNCHANGED <<store, entry, reqParam, hThreshold, argThreshold, threshold,
                   products, product, idx, units, closer, alerts, ret, response,
                   panicked, evaluated, fetches, evalVars, recorded, httpVars, svcVars>>

WgAdd_Twice(w) == w + 2

\* wg.Add(1)
WgAdd(w) == w + 1

\* One iteration of the loop over products: wg.Add(1), then go func(p){..}(product)
DispatchUnit ==
    /\ panicked = FALSE
    /\ pc = "loop"
    /\ idx < Len(products)
    /\ idx' = idx + 1
    /\ product' = products[idx + 1]
    /\ wg' = WgAdd(wg)
    /\ units' = Append(units, [p |-> products[idx + 1], pc |-> "sleep", alert |-> Nil])
    /\ UNCHANGED <<store, pc, entry, reqParam, hThreshold, argThreshold,
                   threshold, products, alertsChan, closer, alerts, ret,
                   response, panicked, evaluated, fetches, evalVars, recorded, httpVars, svcVars>>

\* The loop is over: go func() { wg.Wait(); close(alertsChan) }()
SpawnCloser ==
    /\ panicked = FALSE
    /\ pc = "loop"
    /\ idx = Len(products)
    /\ pc' = "range"
    /\ closer' = "wait"
    /\ UNCHANGED <<store, entry, reqParam, hThreshold, argThreshold, threshold,
                   products, product, idx, alertsChan, wg, units, alerts, ret,
                   response, panicked, evaluated, fetches, evalVars, recorded, httpVars, svcVars>>

(***************************************************************************)
(* The evaluation goroutines: go func(p models.Product) { ... }(product)   *)
(***************************************************************************)
UnitProduct_LoopVar(i) == product

UnitProduct_Reread(i) == store[units[i].p.ID]

UnitProduct_Previous(i) == units[IF i > 1 THEN i - 1 ELSE i].p

\* The product goroutine i evaluates: its own parameter p.
UnitProduct(i) == units[i].p

\* time.Sleep(10ms); alert := p.GenerateAlert(threshold)
UnitEvaluate(i, now) ==
    /\ panicked = FALSE
    /\ i \in 1..Len(units)
    /\ units[i].pc = "sleep"
    /\ LET a == GenerateAlert(UnitProduct(i), threshold, now)
       IN  units' = [units EXCEPT ![i].alert = a,
                                  ![i].pc = IF a # Nil THEN "send" ELSE "exit"]
    /\ evaluated' = [evaluated EXCEPT ![UnitProduct(i).ID] = @ + 1]
    /\ UNCHANGED <<store, pc, entry, reqParam, hThreshold, argThreshold,
                   threshold, products, product, idx, alertsChan, wg, closer,
                   alerts, ret, response, panicked, fetches, evalVars, recorded, httpVars, svcVars>>

\* Whether a send on channel c can proceed now: a send on a closed channel
\* panics at once; otherwise it needs room in the buffer or, on an
\* unbuffered channel, the receiver waiting in its range loop.
CanSend(c) ==
    \/ c.closed
    \/ Len(c.buf) < c.cap
    \/ c.cap = 0 /\ pc = "range"

\* alertsChan <- alert
UnitPublish(i) ==
    /\ panicked = FALSE
    /\ i \in 1..Len(units)
    /\ units[i].pc = "send"
    /\ CanSend(alertsChan)
    /\ units' = [units EXCEPT ![i].pc = "exit"]
    /\ IF alertsChan.closed
       THEN /\ panicked' = TRUE
            /\ UNCHANGED <<alertsChan, alerts>>
       ELSE IF Len(alertsChan.buf) < alertsChan.cap
       THEN /\ alertsChan' = [alertsChan EXCEPT !.buf = Append(@, units[i].alert)]
            /\ UNCHANGED <<alerts, panicked>>
       ELSE /\ alerts' = Append(alerts, Deref(units[i].alert))
            /\ UNCHANGED <<alertsChan, panicked>>
    /\ UNCHANGED <<store, pc, entry, reqParam, hThreshold, argThreshold,
                   threshold, products, product, idx, wg, closer, ret,
                   response, evaluated, fetches, evalVars, recorded, httpVars, svcVars>>

\* defer wg.Done(); a negative counter panics.
UnitDone(i) ==
    /\ panicked = FALSE
    /\ i \in 1..Len(units)
    /\ units[i].pc = "exit"
    /\ units' = [units EXCEPT ![i].pc = "done"]
    /\ wg' = wg - 1
    /\ panicked' = (wg - 1 < 0)
    /\ UNCHANGED <<store, pc, entry, reqParam, hThreshold, argThreshold,
                   threshold, products, product, idx, alertsChan, closer,
                   alerts, ret, response, evaluated, fetches, evalVars, recorded, httpVars, svcVars>>

(***************************************************************************)
(* The closing goroutine: go func() { wg.Wait(); close(alertsChan) }()     *)
(***************************************************************************)
WgWaitReturns_NoJoin(w) == TRUE

\* wg.Wait() returns when the counter is zero.
WgWaitReturns(w) == w = 0

CloserWait ==
    /\ panicked = FALSE
    /\ closer = "wait"
    /\ WgWaitReturns(wg)
    /\ closer' = "close"
    /\ UNCHANGED <<store, pc, entry, reqParam, hThreshold, argThreshold,
                   threshold, products, product, idx, alertsChan, wg, units,
                   alerts, ret, response, panicked, evaluated, fetches, evalVars, recorded, httpVars, svcVars>>

\* close(alertsChan); closing a closed channel panics.
CloserClose ==
    /\ panicked = FALSE
    /\ closer = "close"
    /\ closer' = "done"
    /\ IF alertsChan.closed
       THEN /\ panicked' = TRUE
            /\ UNCHANGED alertsChan
       ELSE /\ alertsChan' = [alertsChan EXCEPT !.closed = TRUE]
            /\ UNCHANGED panicked
    /\ UNCHANGED <<store, pc, entry, reqParam, hThreshold, argThreshold,
                   threshold, products, product, idx, wg, units, alerts, ret,
                   response, evaluated, fetches, evalVars, recorded, httpVars, svcVars>>

(***************************************************************************)
(* The collection loop: for alert := range alertsChan { append }           *)
(***************************************************************************)
ChanReceive_NoPop(c) == c

\* The channel after the receiver has taken the first buffered element.
ChanReceive(c) == [c EXCEPT !.buf = Tail(@)]

\* One iteration: alerts = append(alerts, *alert)
ReceiveAlert ==
    /\ panicked = FALSE
    /\ pc = "range"
    /\ alertsChan.buf # <<>>
    /\ alerts' = Append(alerts, Deref(Head(alertsChan.buf)))
    /\ alertsChan' = ChanReceive(alertsChan)
    /\ UNCHANGED <<store, pc, entry, reqParam, hThreshold, argThreshold,
                   threshold, products, product, idx, wg, units, closer, ret,
                   response, panicked, evaluated, fetches, evalVars, recorded, httpVars, svcVars>>

RangeEnds_EmptyBuffer(c) == c.buf = <<>>

\* for ... range c ends when c is closed and drained.
RangeEnds(c) == c.buf = <<>> /\ c.closed

RangeExit_DeleteOutOfStock ==
    /\ panicked = FALSE
    /\ pc = "range"
    /\ RangeEnds(alertsChan)
    /\ pc' = "return"
    /\ ret' = Ptr([alerts |-> alerts, err |-> Nil])
    /\ store' = [k \in 1..Len(store) |->
                     IF \E j \in 1..Len(alerts) :
                            /\ alerts[j].ProductID = store[k].ID
                            /\ alerts[j].Severity = "critical"
                     THEN [store[k] EXCEPT !.Deleted = TRUE]
                     ELSE store[k]]
    /\ UNCHANGED <<entry, reqParam, hThreshold, argThreshold, threshold,
                   products, product, idx, alertsChan, wg, units, closer,
                   alerts, response, panicked, evaluated, fetches, evalVars,
                   recorded, httpVars, svcVars>>

\* The channel is closed and drained: the loop ends and the service
\* executes return alerts, nil.
RangeExit ==
    /\ panicked = FALSE
    /\ pc = "range"
    /\ RangeEnds(alertsChan)
    /\ pc' = "return"
    /\ ret' = Ptr([alerts |-> alerts, err |-> Nil])
    /\ UNCHANGED <<store, entry, reqParam, hThreshold, argThreshold, threshold,
                   products, product, idx, alertsChan, wg, units, closer,
                   alerts, response, panicked, evaluated, fetches, evalVars, recorded, httpVars, svcVars>>

\* The response of the GenerateAlerts handler to the service's result r,
\* with the handler's threshold t.
Respond(r, t) ==
    IF r.err # Nil
    THEN Ptr([status |-> StatusInternalServerError,
              body |-> [error |-> "Failed to generate alerts",
                        details |-> Deref(r.err)]])
    ELSE Ptr([status |-> StatusOK,
              body |-> [alerts |-> r.alerts, total |-> Len(r.alerts),
                        threshold |-> t,
                        message |-> "Alerts generated using concurrent processing"]])

\* The service returned to the handler, which answers the request.
HandlerRespond ==
    /\ panicked = FALSE
    /\ pc = "return"
    /\ entry = "http"
    /\ pc' = "done"
    /\ response' = Respond(Deref(ret), hThreshold)
    /\ UNCHANGED <<store, entry, reqParam, hThreshold, argThreshold, threshold,
                   products, product, idx, alertsChan, wg, units, closer,
                   alerts, ret, panicked, evaluated, fetches, evalVars, recorded, httpVars, svcVars>>

\* The service returned to a caller other than the handler.
ReturnToCaller ==
    /\ panicked = FALSE
    /\ pc = "return"
    /\ entry = "direct"
    /\ pc' = "done"
    /\ UNCHANGED <<store, entry, reqParam, hThreshold, argThreshold, threshold,
                   products, product, idx, alertsChan, wg, units, closer,
                   alerts, ret, response, panicked, evaluated, fetches, evalVars, recorded, httpVars, svcVars>>

\* The call is over and its goroutines have ended: its locals go out of
\* scope, and the server is ready for the next call.
EndCall ==
    /\ panicked = FALSE
    /\ pc = "done"
    /\ closer \in {"none", "done"}
    /\ \A i \in 1..Len(units) : units[i].pc = "done"
    /\ pc' = "idle"
    /\ entry' = "none"
    /\ reqParam' = <<>>
    /\ hThreshold' = 0
    /\ argThreshold' = 0
    /\ threshold' = 0
    /\ products' = <<>>
    /\ product' = ZeroProduct
    /\ idx' = 0
    /\ alertsChan' = NoChannel
    /\ wg' = 0
    /\ units' = <<>>
    /\ closer' = "none"
    /\ alerts' = <<>>
    /\ ret' = Nil
    /\ response' = Nil
    /\ evaluated' = [id \in ProductIDs |-> 0]
    /\ fetches' = 0
    /\ UNCHANGED <<store, panicked, evalVars, httpVars, svcVars>>

\* The call is over; the next one starts from nothing of it.
Reset ==
    /\ EndCall
    /\ UNCHANGED recorded

Caller ==
    \/ NormalizeThreshold
    \/ \E ok \in BOOLEAN : FetchProducts(ok)
    \/ MakeChannel
    \/ DispatchUnit
    \/ SpawnCloser
    \/ ReceiveAlert
    \/ RangeExit
    \/ HandlerRespond
    \/ ReturnToCaller

Unit(i) ==
    \/ \E now \in Times : UnitEvaluate(i, now)
    \/ UnitPublish(i)
    \/ UnitDone(i)

Closer ==
    \/ CloserWait
    \/ CloserClose

\* A step of one of the call's goroutines.
GoroutineStep ==
    \/ Caller
    \/ \E i \in ProductIDs : Unit(i)
    \/ Closer

\* Every step is guarded by panicked = FALSE: a panic ends the process.
Next ==
    \/ \E param \in Params : HandlerGenerateAlerts(param)
    \/ \E t \in Thresholds : CallGenerateAlertsWithConcurrency(t)
    \/ GoroutineStep
    \/ Reset

Spec == Init /\ [][Next]_vars

\* The Go scheduler does not stop while a goroutine can take a step;
\* requests arrive, and finished calls are forgotten, at no particular time.
Fairness == WF_vars(GoroutineStep)

FairSpec == Spec /\ Fairness

(***************************************************************************)
(* SpecEval: Product.GenerateAlert on its own                              *)
(***************************************************************************)
EvalQuantities == (0 - 1)..MaxEvalQuantity
EvalThresholds == (0 - 3)..MaxEvalThreshold

InitEval ==
    /\ store = <<>>
    /\ GenIdle
    /\ evalProduct \in {Product(1, q) : q \in EvalQuantities}
    /\ evalThreshold \in EvalThresholds
    /\ evalResults = <<>>
    /\ recorded = Nil
    /\ HTTPIdle
    /\ SvcIdle

\* result := evalProduct.GenerateAlert(evalThreshold)
Evaluate(now) ==
    /\ Len(evalResults) < MaxEvalCalls
    /\ evalResults' = Append(evalResults, GenerateAlert(evalProduct, evalThreshold, now))
    /\ UNCHANGED <<store, genVars, evalProduct, evalThreshold, recorded, httpVars, svcVars>>

NextEval == \E now \in Times : Evaluate(now)

SpecEval == InitEval /\ [][NextEval]_vars

(***************************************************************************)
(* Properties of GenerateAlertsWithConcurrency                             *)
(***************************************************************************)
\* The service has executed return alerts, nil.
ReturnedOK == ret # Nil /\ Deref(ret).err = Nil

\* The service has executed return nil, err.
ReturnedError == ret # Nil /\ Deref(ret).err # Nil

SnapshotIDs == {products[k].ID : k \in 1..Len(products)}

AllUnitsDone == \A i \in 1..Len(units) : units[i].pc = "done"

\* C1: a call over a snapshot of N products dispatches exactly N units,
\* evaluates each snapshot product exactly once (never more than once on the
\* way, never a product outside the snapshot) and has every unit finished
\* when it returns, whatever the interleaving and however many alerts.
C1_JoinCompleteness ==
    /\ Len(units) <= Len(products)
    /\ \A id \in ProductIDs :
          evaluated[id] <= (IF id \in SnapshotIDs THEN 1 ELSE 0)
    /\ ReturnedOK =>
          /\ Len(units) = Len(products)
          /\ AllUnitsDone
          /\ \A id \in SnapshotIDs : evaluated[id] = 1

\* A call over a two-product snapshot returned, one product having yielded
\* an alert and the other none.
C1_Witness ==
    /\ ReturnedOK
    /\ Len(products) = 2
    /\ Len(units) = 2
    /\ Len(Deref(ret).alerts) = 1

\* C2: the channel is closed only once every product has been dispatched and
\* every unit has finished, and no goroutine panics: no unit sends on the
\* closed channel and the channel is not closed twice.
C2_CloseAfterJoin ==
    /\ panicked = FALSE
    /\ alertsChan.closed =>
          /\ idx = Len(products)
          /\ Len(units) = Len(products)
          /\ AllUnitsDone
          /\ closer = "done"

\* The channel was closed after two units, of which one published nothing.
C2_Witness ==
    /\ alertsChan.closed
    /\ Len(units) = 2
    /\ \E i \in 1..Len(units) : units[i].alert = Nil
    /\ \E i \in 1..Len(units) : units[i].alert # Nil

AlertIDs(as) == {as[k].ProductID : k \in 1..Len(as)}

\* C3: when the fetch succeeded, the returned collection holds an alert for
\* a snapshot product exactly if its quantity is below the effective
\* threshold.
C3_AlertIffBelowThreshold ==
    ReturnedOK =>
        AlertIDs(Deref(ret).alerts) =
            {products[k].ID : k \in {j \in 1..Len(products) :
                                        products[j].Quantity < threshold}}

\* A call returned an alert for one product and none for another whose
\* quantity equals the threshold.
C3_Witness ==
    /\ ReturnedOK
    /\ Len(Deref(ret).alerts) = 1
    /\ \E k \in 1..Len(products) : products[k].Quantity = threshold

\* C4: under fair scheduling every call whose fetch succeeded returns, with
\* every unit finished and the closing goroutine ended.
C4_EventuallyReturns ==
    (pc = "make") ~> (pc = "return" /\ AllUnitsDone /\ closer = "done")

\* A call over a full snapshot in which no product yields an alert returned.
C4_Witness ==
    /\ pc = "return"
    /\ ReturnedOK
    /\ Len(products) = MaxProducts
    /\ Deref(ret).alerts = <<>>
    /\ AllUnitsDone

\* C5: the channel never buffers more alerts than the snapshot has products,
\* which is its capacity, and a unit about to publish always finds room in
\* the buffer.
C5_PublishNeverBlocks ==
    alertsChan.made =>
        /\ alertsChan.cap = Len(products)
        /\ Len(alertsChan.buf) <= Len(products)
        /\ \A i \in 1..Len(units) :
              units[i].pc = "send" => Len(alertsChan.buf) < alertsChan.cap

\* The caller is still dispatching and has drained nothing, one alert is
\* buffered, and another unit is about to publish.
C5_Witness ==
    /\ pc = "loop"
    /\ alerts = <<>>
    /\ Len(alertsChan.buf) >= 1
    /\ \E i \in 1..Len(units) : units[i].pc = "send"

\* C6: after a failed fetch the call returns the error and no alerts, having
\* dispatched no unit and started neither channel nor join; the handler then
\* answers 500 with an error body without alerts, and answers 200 only after
\* a successful fetch.
C6_FetchFailure ==
    /\ ReturnedError =>
          /\ Deref(ret).alerts = Nil
          /\ units = <<>>
          /\ alertsChan = NoChannel
          /\ closer = "none"
          /\ wg = 0
          /\ \A id \in ProductIDs : evaluated[id] = 0
    /\ response # Nil =>
          /\ ReturnedError =>
                /\ Deref(response).status = StatusInternalServerError
                /\ DOMAIN Deref(response).body = {"error", "details"}
          /\ Deref(response).status = StatusOK =>
                /\ ReturnedOK
                /\ alertsChan.made
                /\ "alerts" \in DOMAIN Deref(response).body

\* The handler answered 500 over a table that holds products.
C6_Witness ==
    /\ response # Nil
    /\ Deref(response).status = StatusInternalServerError
    /\ ReturnedError
    /\ store # <<>>

\* C7: the collection, while it is built and when it is returned, holds at
\* most one alert per product id.
C7_NoDuplicateAlerts ==
    /\ \A i, j \in 1..Len(alerts) :
          alerts[i].ProductID = alerts[j].ProductID => i = j
    /\ ReturnedOK =>
          \A i, j \in 1..Len(Deref(ret).alerts) :
             Deref(ret).alerts[i].ProductID = Deref(ret).alerts[j].ProductID => i = j

\* A call returned two alerts.
C7_Witness ==
    /\ ReturnedOK
    /\ Len(Deref(ret).alerts) = 2

\* An alert without its generated_at.
StripTime(a) == [f \in DOMAIN a \ {"GeneratedAt"} |-> a[f]]

AlertSet(as) == {StripTime(as[k]) : k \in 1..Len(as)}

\* What a call with threshold t returns for the snapshot ps, as a set and
\* without the timestamps.
AlertsFor(ps, t) ==
    {StripTime(Deref(GenerateAlert(ps[k], t, 0))) :
        k \in {j \in 1..Len(ps) : GenerateAlert(ps[j], t, 0) # Nil}}

\* C8: a call with a threshold <= 0 returns, for the same snapshot, the
\* alerts of a call with threshold 5, threshold field included; and the
\* handler passes 5 when the query parameter is absent, no integer or not
\* positive.
C8_DefaultThreshold ==
    /\ (ReturnedOK /\ (argThreshold <= 0 \/ argThreshold = 5)) =>
          AlertSet(Deref(ret).alerts) = AlertsFor(products, 5)
    /\ (entry = "http"
        /\ (reqParam = <<>> \/ ~Atoi(reqParam).ok \/ Atoi(reqParam).val <= 0)) =>
          /\ hThreshold = 5
          /\ argThreshold = 5
          /\ (response # Nil /\ ReturnedOK) => Deref(response).body.threshold = 5

\* A caller passed -3 and got an alert whose threshold field is 5.
C8_Witness ==
    /\ entry = "direct"
    /\ argThreshold = 0 - 3
    /\ ReturnedOK
    /\ \E k \in 1..Len(Deref(ret).alerts) :
          /\ Deref(ret).alerts[k].Threshold = 5
          /\ Deref(ret).alerts[k].Quantity = 0

(***************************************************************************)
(* Properties of Product.GenerateAlert (SpecEval)                          *)
(***************************************************************************)
\* C9: GenerateAlert returns nil whenever quantity >= threshold.
C9_NoAlertAtOrAboveThreshold ==
    \A k \in 1..Len(evalResults) :
        evalProduct.Quantity >= evalThreshold => evalResults[k] = Nil

\* GenerateAlert returned nil for quantity = threshold = 0.
C9_Witness ==
    /\ Len(evalResults) >= 1
    /\ evalProduct.Quantity = 0
    /\ evalThreshold = 0
    /\ evalResults[1] = Nil

\* C10: for quantity 0 and any threshold > 0 GenerateAlert returns an alert
\* of severity "critical" with the message "Product out of stock".
C10_OutOfStockIsCritical ==
    \A k \in 1..Len(evalResults) :
        (evalProduct.Quantity = 0 /\ evalThreshold > 0) =>
            /\ evalResults[k] # Nil
            /\ Deref(evalResults[k]).Severity = "critical"
            /\ Deref(evalResults[k]).Message = "Product out of stock"

\* GenerateAlert returned a critical alert for quantity 0 and threshold 1.
C10_Witness ==
    /\ Len(evalResults) >= 1
    /\ evalProduct.Quantity = 0
    /\ evalThreshold = 1
    /\ evalResults[1] # Nil
    /\ Deref(evalResults[1]).Severity = "critical"

\* C11: for 0 < quantity <= 2 < threshold GenerateAlert returns an alert of
\* severity "high" with the message "Critical stock level".
C11_CriticalLevelIsHigh ==
    \A k \in 1..Len(evalResults) :
        (0 < evalProduct.Quantity /\ evalProduct.Quantity <= 2
         /\ 2 < evalThreshold) =>
            /\ evalResults[k] # Nil
            /\ Deref(evalResults[k]).Severity = "high"
            /\ Deref(evalResults[k]).Message = "Critical stock level"

\* GenerateAlert returned a high alert for quantity 2 and threshold 3.
C11_Witness ==
    /\ Len(evalResults) >= 1
    /\ evalProduct.Quantity = 2
    /\ evalThreshold = 3
    /\ evalResults[1] # Nil
    /\ Deref(evalResults[1]).Severity = "high"

\* C12: for 2 < quantity < threshold GenerateAlert returns an alert of
\* severity "low" with the message "Stock below threshold".
C12_BelowThresholdIsLow ==
    \A k \in 1..Len(evalResults) :
        (2 < evalProduct.Quantity /\ evalProduct.Quantity < evalThreshold) =>
            /\ evalResults[k] # Nil
            /\ Deref(evalResults[k]).Severity = "low"
            /\ Deref(evalResults[k]).Message = "Stock below threshold"

\* GenerateAlert returned a low alert for quantity 3 and threshold 4.
C12_Witness ==
    /\ Len(evalResults) >= 1
    /\ evalProduct.Quantity = 3
    /\ evalThreshold = 4
    /\ evalResults[1] # Nil
    /\ Deref(evalResults[1]).Severity = "low"

\* Two results of GenerateAlert that are both nil, or both alerts equal in
\* every field but generated_at.
SameButTime(r1, r2) ==
    IF r1 = Nil \/ r2 = Nil THEN r1 = Nil /\ r2 = Nil
    ELSE StripTime(Deref(r1)) = StripTime(Deref(r2))

\* C13: any two calls of GenerateAlert with the same product and threshold
\* give no alert both times or alerts equal except for generated_at, and no
\* call changes the product.
C13_EvaluateIdempotent ==
    /\ [](\A j, k \in 1..Len(evalResults) :
             SameButTime(evalResults[j], evalResults[k]))
    /\ [][evalProduct' = evalProduct]_vars

\* Two calls returned alerts generated at different times.
C13_Witness ==
    /\ Len(evalResults) >= 2
    /\ evalResults[1] # Nil
    /\ evalResults[2] # Nil
    /\ Deref(evalResults[1]).GeneratedAt # Deref(evalResults[2]).GeneratedAt

\* The message that belongs to a severity.
MessageOf(severity) ==
    CASE severity = "critical" -> "Product out of stock"
      [] severity = "high" -> "Critical stock level"
      [] severity = "low" -> "Stock below threshold"

\* C20: every alert's severity is critical, high or low and fixes its
\* message; quantity 0 is always critical, never high or low, and
\* 0 < quantity <= 2 is always high, never low or critical, whatever the
\* threshold.
C20_BandPrecedence ==
    \A k \in 1..Len(evalResults) :
        evalResults[k] # Nil =>
            /\ Deref(evalResults[k]).Severity \in {"critical", "high", "low"}
            /\ Deref(evalResults[k]).Message = MessageOf(Deref(evalResults[k]).Severity)
            /\ evalProduct.Quantity = 0 => Deref(evalResults[k]).Severity = "critical"
            /\ (0 < evalProduct.Quantity /\ evalProduct.Quantity <= 2) =>
                  Deref(evalResults[k]).Severity = "high"

\* GenerateAlert classified quantity 0 under threshold 2, and not as high.
C20_Witness ==
    /\ Len(evalResults) >= 1
    /\ evalProduct.Quantity = 0
    /\ evalThreshold = 2
    /\ evalResults[1] # Nil
    /\ Deref(evalResults[1]).Severity # "high"

(***************************************************************************)
(* SpecRuns: calls of GenerateAlertsWithConcurrency, one after another,    *)
(* with the outcome of an earlier call kept for comparison                 *)
(***************************************************************************)
\* What a successful call was given and what it returned.
RunRecord ==
    [products |-> products, threshold |-> threshold,
     alerts |-> AlertSet(Deref(ret).alerts)]

\* The call is over like in Reset, and its outcome is written down if it
\* returned alerts; any call may be the one written down.
RecordRun ==
    /\ EndCall
    /\ ReturnedOK
    /\ recorded' = Ptr(RunRecord)

NextRuns ==
    \/ \E param \in Params : HandlerGenerateAlerts(param)
    \/ \E t \in Thresholds : CallGenerateAlertsWithConcurrency(t)
    \/ GoroutineStep
    \/ Reset
    \/ RecordRun

SpecRuns == Init /\ [][NextRuns]_vars

\* C14: a call that returns alerts for the snapshot and threshold of an
\* earlier call returns the same set of alerts (order and generated_at
\* aside) as that call did, whatever the units' schedule in either call and
\* whatever calls ran in between.
C14_SameSnapshotSameAlerts ==
    (/\ ReturnedOK
     /\ recorded # Nil
     /\ Deref(recorded).products = products
     /\ Deref(recorded).threshold = threshold)
        => AlertSet(Deref(ret).alerts) = Deref(recorded).alerts

\* A second call on a recorded snapshot and threshold returned two alerts,
\* received in the other order than the units were dispatched.
C14_Witness ==
    /\ ReturnedOK
    /\ recorded # Nil
    /\ Deref(recorded).products = products
    /\ Deref(recorded).threshold = threshold
    /\ Len(Deref(ret).alerts) = 2
    /\ Deref(ret).alerts[1].ProductID = 2

(***************************************************************************)
(* The write operations of the product service                             *)
(***************************************************************************)
\* The models.ProductRequest for a product of the given name, category,
\* quantity and price.
ProductRequest(name, category, q, price) ==
    [Name |-> name, Category |-> category, Quantity |-> q, Price |-> price]

First_WithDeleted(t, id) ==
    IF \E k \in 1..Len(t) : t[k].ID = id
    THEN Ptr(t[CHOOSE k \in 1..Len(t) : t[k].ID = id])
    ELSE Nil

\* ps.db.First(&product, id): the row with that primary key that is not
\* soft-deleted, or nil for gorm.ErrRecordNotFound.
First(t, id) ==
    IF \E k \in 1..Len(t) : t[k].ID = id /\ ~t[k].Deleted
    THEN Ptr(t[CHOOSE k \in 1..Len(t) : t[k].ID = id /\ ~t[k].Deleted])
    ELSE Nil

\* ps.db.Create(&product): the table with the new row under the next key.
Create(t, p) == Append(t, [p EXCEPT !.ID = Len(t) + 1])

\* ps.db.Save(&product): the table with the row of p's key overwritten by p.
Save(t, p) == [k \in 1..Len(t) |-> IF t[k].ID = p.ID THEN p ELSE t[k]]

Delete_NoMark(t, p) == t

\* ps.db.Delete(&product): Product has a DeletedAt field, so the row stays
\* and is marked deleted.
Delete(t, p) ==
    [k \in 1..Len(t) |-> IF t[k].ID = p.ID THEN [t[k] EXCEPT !.Deleted = TRUE]
                         ELSE t[k]]

NotFound == [store |-> <<>>, changed |-> FALSE, err |-> Ptr("product not found")]

\* func (ps *ProductService) CreateProduct(req): the table afterwards.
CreateProduct(t, req) ==
    Create(t, [ID |-> 0, Name |-> req.Name, Category |-> req.Category,
               Quantity |-> req.Quantity, Deleted |-> FALSE])

\* func (ps *ProductService) UpdateProduct(id, req): the error, or the
\* table afterwards.
UpdateProduct(t, id, req) ==
    IF First(t, id) = Nil THEN [NotFound EXCEPT !.store = t]
    ELSE [store |-> Save(t, [Deref(First(t, id)) EXCEPT
                                 !.Name = req.Name,
                                 !.Quantity = req.Quantity,
                                 !.Category = req.Category]),
          changed |-> TRUE, err |-> Nil]

\* func (ps *ProductService) UpdateStock(id, newQuantity)
UpdateStock(t, id, newQuantity) ==
    IF First(t, id) = Nil THEN [NotFound EXCEPT !.store = t]
    ELSE [store |-> Save(t, [Deref(First(t, id)) EXCEPT !.Quantity = newQuantity]),
          changed |-> TRUE, err |-> Nil]

\* func (ps *ProductService) DeleteProduct(id)
DeleteProduct(t, id) ==
    IF First(t, id) = Nil THEN [NotFound EXCEPT !.store = t]
    ELSE [store |-> Delete(t, Deref(First(t, id))), changed |-> TRUE, err |-> Nil]

(***************************************************************************)
(* SpecStore: a call of GenerateAlertsWithConcurrency while other requests *)
(* write to the products table                                             *)
(***************************************************************************)
\* The thresholds the service is called with in SpecStore, and the
\* quantities the other requests write: a full update sells a product out,
\* a stock update refills it.
StoreThresholds == {7}
UpdateQuantities == {0}
RestockQuantities == {5}

\* Another request's CreateProduct runs to its end.
WriterCreateProduct(q) ==
    /\ panicked = FALSE
    /\ Len(store) < MaxProducts
    /\ store' = CreateProduct(store,
                    ProductRequest(NameOf(Len(store) + 1),
                                   CategoryOf(Len(store) + 1), q, 10))
    /\ UNCHANGED <<genVars, evalVars, recorded, httpVars, svcVars>>

\* Another request's UpdateProduct runs to its end.
WriterUpdateProduct(id, q) ==
    /\ panicked = FALSE
    /\ store' = UpdateProduct(store, id,
                    ProductRequest(NameOf(id), CategoryOf(id), q, 10)).store
    /\ UNCHANGED <<genVars, evalVars, recorded, httpVars, svcVars>>

\* Another request's UpdateStock runs to its end.
WriterUpdateStock(id, q) ==
    /\ panicked = FALSE
    /\ store' = UpdateStock(store, id, q).store
    /\ UNCHANGED <<genVars, evalVars, recorded, httpVars, svcVars>>

\* Another request's DeleteProduct runs to its end.
WriterDeleteProduct(id) ==
    /\ panicked = FALSE
    /\ store' = DeleteProduct(store, id).store
    /\ UNCHANGED <<genVars, evalVars, recorded, httpVars, svcVars>>

\* The units of SpecStore and SpecHTTP read the clock at one time.
StoreUnit(i) ==
    \/ UnitEvaluate(i, 1)
    \/ UnitPublish(i)
    \/ UnitDone(i)

\* The steps of the goroutine of a call that does not come from the handler.
ServiceCaller ==
    \/ NormalizeThreshold
    \/ \E ok \in BOOLEAN : FetchProducts(ok)
    \/ MakeChannel
    \/ DispatchUnit
    \/ SpawnCloser
    \/ ReceiveAlert
    \/ RangeExit
    \/ ReturnToCaller

NextStore ==
    \/ \E t \in StoreThresholds : CallGenerateAlertsWithConcurrency(t)
    \/ ServiceCaller
    \/ \E i \in ProductIDs : StoreUnit(i)
    \/ Closer
    \/ Reset
    \/ \E q \in Quantities : WriterCreateProduct(q)
    \/ \E id \in ProductIDs, q \in UpdateQuantities : WriterUpdateProduct(id, q)
    \/ \E id \in ProductIDs, q \in RestockQuantities : WriterUpdateStock(id, q)
    \/ \E id \in ProductIDs : WriterDeleteProduct(id)

SpecStore == Init /\ [][NextStore]_vars

\* The snapshot product an alert is about.
SnapshotProduct(a) ==
    products[CHOOSE k \in 1..Len(products) : products[k].ID = a.ProductID]

\* C15: a call reads the products table at most once, and has read it once
\* before its first unit is dispatched and when it returns alerts; whatever
\* is written to the table after that read, the alerts returned are those
\* of the snapshot and each carries the snapshot quantity of its product.
C15_SnapshotIsolation ==
    /\ fetches <= 1
    /\ Len(units) > 0 => fetches = 1
    /\ ReturnedOK =>
          /\ fetches = 1
          /\ AlertSet(Deref(ret).alerts) = AlertsFor(products, threshold)
          /\ \A k \in 1..Len(Deref(ret).alerts) :
                /\ Deref(ret).alerts[k].ProductID \in SnapshotIDs
                /\ Deref(ret).alerts[k].Quantity =
                       SnapshotProduct(Deref(ret).alerts[k]).Quantity

\* A call returned an alert for a product whose stock was raised, and one
\* for a product that was deleted, after the call had read the table, and
\* none for a product created since.
C15_Witness ==
    /\ ReturnedOK
    /\ Len(Deref(ret).alerts) = 1
    /\ Len(store) = 2
    /\ store[1].Quantity = 5
    /\ store[1].Deleted
    /\ Deref(ret).alerts[1].ProductID = 1
    /\ Deref(ret).alerts[1].Quantity = 0

\* C16: no step of a call of GenerateAlertsWithConcurrency, from the request
\* to the response and whether the read of the table succeeds or fails,
\* changes the products table: no row is added, changed or marked deleted.
C16_StoreUnchanged == [][store' = store]_vars

\* A call has answered 200 with alerts.
C16_Witness ==
    /\ pc = "done"
    /\ response # Nil
    /\ Deref(response).status = StatusOK
    /\ Deref(response).body.total > 0
    /\ store # <<>>

(***************************************************************************)
(* SpecSeed: one call of GenerateAlertsWithConcurrency on the table the    *)
(* seed script creates                                                     *)
(***************************************************************************)
\* products := []models.Product{...} of scripts/seed/main.go (name, category
\* and quantity of each).
SeedProducts ==
    <<
      [Name |-> "Laptop Dell XPS 13", Category |-> "Electronics", Quantity |-> 15],
      [Name |-> "iPhone 14 Pro", Category |-> "Electronics", Quantity |-> 8],
      [Name |-> "Escritorio de Oficina", Category |-> "Furniture", Quantity |-> 25],
      [Name |-> "Silla Ejecutiva", Category |-> "Furniture", Quantity |-> 12],
      [Name |-> "Monitor 4K Samsung", Category |-> "Electronics", Quantity |-> 20],
      [Name |-> "Teclado Mecanico", Category |-> "Electronics", Quantity |-> 30],
      [Name |-> "Mouse Inalambrico", Category |-> "Electronics", Quantity |-> 45],
      [Name |-> "Lampara LED", Category |-> "Lighting", Quantity |-> 18],
      [Name |-> "Cafetera Automatica", Category |-> "Appliances", Quantity |-> 10],
      [Name |-> "Auriculares Bluetooth", Category |-> "Electronics", Quantity |-> 35],
      [Name |-> "Tablet iPad Pro", Category |-> "Electronics", Quantity |-> 3],
      [Name |-> "Impresora Laser", Category |-> "Office Equipment", Quantity |-> 2],
      [Name |-> "Webcam HD", Category |-> "Electronics", Quantity |-> 4],
      [Name |-> "Disco Duro SSD", Category |-> "Electronics", Quantity |-> 1],
      [Name |-> "Router WiFi 6", Category |-> "Electronics", Quantity |-> 0]
    >>

RECURSIVE CreateAll(_, _)
\* for _, product := range products { database.Create(&product) }
CreateAll(t, ps) ==
    IF ps = <<>> THEN t
    ELSE CreateAll(Create(t, [ID |-> 0, Name |-> Head(ps).Name,
                              Category |-> Head(ps).Category,
                              Quantity |-> Head(ps).Quantity,
                              Deleted |-> FALSE]),
                   Tail(ps))

\* The products table after the seed script has run on an empty database.
SeedStore == CreateAll(<<>>, SeedProducts)

SeedIDs == 1..Len(SeedProducts)

SeedThresholds == {5}

InitSeed ==
    /\ store = SeedStore
    /\ pc = "idle"
    /\ entry = "none"
    /\ reqParam = <<>>
    /\ hThreshold = 0
    /\ argThreshold = 0
    /\ threshold = 0
    /\ products = <<>>
    /\ product = ZeroProduct
    /\ idx = 0
    /\ alertsChan = NoChannel
    /\ wg = 0
    /\ units = <<>>
    /\ closer = "none"
    /\ alerts = <<>>
    /\ ret = Nil
    /\ response = Nil
    /\ panicked = FALSE
    /\ evaluated = [id \in SeedIDs |-> 0]
    /\ fetches = 0
    /\ EvalIdle
    /\ recorded = Nil
    /\ HTTPIdle
    /\ SvcIdle

\* The schedule explored on the seed table: the units run one after the
\* other in the order of their dispatch, at any pace relative to the
\* dispatch loop, the closer and the collection loop.
SeedTurn(i) == \A j \in 1..(i - 1) : j <= Len(units) /\ units[j].pc = "done"

SeedUnit(i) ==
    /\ SeedTurn(i)
    /\ \/ UnitEvaluate(i, 1)
       \/ UnitPublish(i)
       \/ UnitDone(i)

NextSeed ==
    \/ \E t \in SeedThresholds : CallGenerateAlertsWithConcurrency(t)
    \/ ServiceCaller
    \/ \E i \in SeedIDs : SeedUnit(i)
    \/ Closer

SpecSeed == InitSeed /\ [][NextSeed]_vars

\* The call on the seed table has returned alerts, having evaluated each of
\* the 15 products once.
SeedCallEvaluatedAll ==
    /\ Len(products) = 15
    /\ Len(units) = 15
    /\ AllUnitsDone
    /\ \A id \in SeedIDs : evaluated[id] = 1

\* The ids of the seed products with quantity < 5.
SeedLowStockIDs == {id \in SeedIDs : SeedProducts[id].Quantity < 5}

\* C17 (as amended): on the seed table with threshold 5 the call evaluates
\* 15 products and returns one alert for each product with quantity < 5 and
\* no other, which are 5 products (quantities 3, 2, 4, 1 and 0).
C17_SeedAlerts ==
    ReturnedOK =>
        /\ SeedCallEvaluatedAll
        /\ AlertIDs(Deref(ret).alerts) = SeedLowStockIDs
        /\ Len(Deref(ret).alerts) = 5
        /\ Cardinality(SeedLowStockIDs) = 5

\* C17 (as claimed): on the seed table with threshold 5 the call evaluates
\* 15 products and returns alerts for exactly the products with quantity
\* < 5, which are 4 products.
C17_FourAlerts ==
    ReturnedOK =>
        /\ SeedCallEvaluatedAll
        /\ AlertIDs(Deref(ret).alerts) = SeedLowStockIDs
        /\ Len(Deref(ret).alerts) = 4

\* The call on the seed table returned, the alert for the product that is
\* out of stock among its alerts.
C17_Witness ==
    /\ ReturnedOK
    /\ threshold = 5
    /\ Len(store) = 15
    /\ \E k \in 1..Len(Deref(ret).alerts) : Deref(ret).alerts[k].Quantity = 0

(***************************************************************************)
(* Authentication: ValidateJWT and the JWT middleware                      *)
(***************************************************************************)
StatusCreated == 201
StatusBadRequest == 400
StatusUnauthorized == 401
StatusNotFound == 404

\* Token strings a client may send: one signed by this server and still
\* valid, one signed by it and expired, one signed with another key, one
\* signed with a method that is not HMAC, and one that is no JWT.
Tokens == {"tok.valid", "tok.expired", "tok.forged", "tok.rs256", "tok.garbage"}

\* What jwt.ParseWithClaims finds in a token string: nil when it is no JWT,
\* else its signing method, the key that signed it, whether it has expired
\* and its claims.
DecodeToken(tokenString) ==
    IF Len(tokenString) # 1 \/ tokenString[1] \notin Tokens \/ tokenString[1] = "tok.garbage"
    THEN Nil
    ELSE Ptr([method |-> IF tokenString[1] = "tok.rs256" THEN "RSA" ELSE "HMAC",
              key |-> IF tokenString[1] = "tok.forged" THEN "k2" ELSE "k1",
              expired |-> tokenString[1] = "tok.expired",
              claims |-> [UserID |-> 1, Email |-> "admin@inventory.com"]])

\* func (as *AuthService) ValidateJWT(tokenString string) (*JWTClaims, error)
\* with JWT_SECRET = secret: the key function refuses a method that is not
\* HMAC, the parser a wrong signature and an expired token.
ValidateJWT(tokenString, secret) ==
    IF secret = ""
    THEN [claims |-> Nil, err |-> Ptr("JWT_SECRET not configured")]
    ELSE IF DecodeToken(tokenString) = Nil
              \/ Deref(DecodeToken(tokenString)).method # "HMAC"
              \/ Deref(DecodeToken(tokenString)).key # secret
              \/ Deref(DecodeToken(tokenString)).expired
    THEN [claims |-> Nil, err |-> Ptr("invalid token")]
    ELSE [claims |-> Ptr(Deref(DecodeToken(tokenString)).claims), err |-> Nil]

\* strings.HasPrefix(s, prefix), a string being the sequence of its pieces.
HasPrefix(s, prefix) == s # <<>> /\ Head(s) = prefix

\* strings.TrimPrefix(s, prefix)
TrimPrefix(s, prefix) == IF HasPrefix(s, prefix) THEN Tail(s) ELSE s

\* The middleware answers 401 itself.
Rejected(error) ==
    [next |-> FALSE, status |-> StatusUnauthorized, error |-> error, claims |-> Nil]

JWTMiddleware_AnyScheme(authHeader, secret) ==
    IF authHeader = <<>> THEN Rejected("Authorization header required")
    ELSE IF Tail(authHeader) = <<>> THEN Rejected("Token is required")
    ELSE IF ValidateJWT(Tail(authHeader), secret).err # Nil
    THEN Rejected("Invalid or expired token")
    ELSE [next |-> TRUE, status |-> 0, error |-> "",
          claims |-> ValidateJWT(Tail(authHeader), secret).claims]

\* func JWTMiddleware(db) on a request whose Authorization header is
\* authHeader (empty when absent): it answers 401, or it stores the claims
\* in the context and calls the next handler.
JWTMiddleware(authHeader, secret) ==
    IF authHeader = <<>> THEN Rejected("Authorization header required")
    ELSE IF ~HasPrefix(authHeader, "Bearer ")
    THEN Rejected("Invalid authorization header format")
    ELSE IF TrimPrefix(authHeader, "Bearer ") = <<>> THEN Rejected("Token is required")
    ELSE IF ValidateJWT(TrimPrefix(authHeader, "Bearer "), secret).err # Nil
    THEN Rejected("Invalid or expired token")
    ELSE [next |-> TRUE, status |-> 0, error |-> "",
          claims |-> ValidateJWT(TrimPrefix(authHeader, "Bearer "), secret).claims]

\* func RequireAuth(db) echo.MiddlewareFunc
RequireAuth(authHeader, secret) == JWTMiddleware(authHeader, secret)

(***************************************************************************)
(* The product controller's handlers that write                            *)
(***************************************************************************)
\* strconv.ParseUint(s, 10, 32): digits only.
ParseUint(s) ==
    IF s = <<>> \/ ParseDigits(s, 0) < 0 THEN [ok |-> FALSE, val |-> 0]
    ELSE [ok |-> TRUE, val |-> ParseDigits(s, 0)]

\* c.JSON(status, body) by a handler that leaves the table as it is.
Answer(t, status, body) == [store |-> t, status |-> status, body |-> body]

RequestError_AnyQuantity(req) ==
    IF req.Name = <<>> THEN Ptr("Product name is required")
    ELSE IF req.Price < 0 THEN Ptr("Price cannot be negative")
    ELSE IF req.Category = <<>> THEN Ptr("Category is required")
    ELSE Nil

\* The field checks CreateProduct and UpdateProduct make on the bound
\* request; nil when it passes.
RequestError(req) ==
    IF req.Name = <<>> THEN Ptr("Product name is required")
    ELSE IF req.Price < 0 THEN Ptr("Price cannot be negative")
    ELSE IF req.Quantity < 0 THEN Ptr("Quantity cannot be negative")
    ELSE IF req.Category = <<>> THEN Ptr("Category is required")
    ELSE Nil

\* func (pc *ProductController) CreateProduct(c): body is the bound request,
\* nil when it cannot be bound; dbOK: the database works.
ControllerCreateProduct(t, body, dbOK) ==
    IF body = Nil THEN Answer(t, StatusBadRequest, "Invalid request format")
    ELSE IF RequestError(Deref(body)) # Nil
    THEN Answer(t, StatusBadRequest, Deref(RequestError(Deref(body))))
    ELSE IF ~dbOK THEN Answer(t, StatusInternalServerError, "Failed to create product")
    ELSE Answer(CreateProduct(t, Deref(body)), StatusCreated,
                "Product created successfully")

\* func (pc *ProductController) UpdateProduct(c)
ControllerUpdateProduct(t, idParam, body, dbOK) ==
    IF ~ParseUint(idParam).ok THEN Answer(t, StatusBadRequest, "Invalid product ID")
    ELSE IF body = Nil THEN Answer(t, StatusBadRequest, "Invalid request format")
    ELSE IF RequestError(Deref(body)) # Nil
    THEN Answer(t, StatusBadRequest, Deref(RequestError(Deref(body))))
    ELSE IF ~dbOK THEN Answer(t, StatusInternalServerError, "Failed to update product")
    ELSE IF UpdateProduct(t, ParseUint(idParam).val, Deref(body)).err # Nil
    THEN Answer(t, StatusNotFound, "Product not found")
    ELSE Answer(UpdateProduct(t, ParseUint(idParam).val, Deref(body)).store,
                StatusOK, "Product updated successfully")

\* func (pc *ProductController) DeleteProduct(c)
ControllerDeleteProduct(t, idParam, dbOK) ==
    IF ~ParseUint(idParam).ok THEN Answer(t, StatusBadRequest, "Invalid product ID")
    ELSE IF ~dbOK THEN Answer(t, StatusInternalServerError, "Failed to delete product")
    ELSE IF DeleteProduct(t, ParseUint(idParam).val).err # Nil
    THEN Answer(t, StatusNotFound, "Product not found")
    ELSE Answer(DeleteProduct(t, ParseUint(idParam).val).store, StatusOK,
                "Product deleted successfully")

\* func (pc *ProductController) UpdateStock(c): body is the bound
\* {quantity}, nil when it cannot be bound.
ControllerUpdateStock(t, idParam, body, dbOK) ==
    IF ~ParseUint(idParam).ok THEN Answer(t, StatusBadRequest, "Invalid product ID")
    ELSE IF body = Nil THEN Answer(t, StatusBadRequest, "Invalid request format")
    ELSE IF Deref(body).Quantity < 0
    THEN Answer(t, StatusBadRequest, "Quantity cannot be negative")
    ELSE IF ~dbOK THEN Answer(t, StatusInternalServerError, "Failed to update stock")
    ELSE IF UpdateStock(t, ParseUint(idParam).val, Deref(body).Quantity).err # Nil
    THEN Answer(t, StatusNotFound, "Product not found")
    ELSE Answer(UpdateStock(t, ParseUint(idParam).val, Deref(body).Quantity).store,
                StatusOK, "Stock updated successfully")

(***************************************************************************)
(* GetLowStockProducts (service and handler)                               *)
(***************************************************************************)
LowStockDefaultThreshold == 5
LowStockHandlerDefault == 5

\* func (p *Product) GetStockStatus(lowThreshold, criticalThreshold int)
GetStockStatus(p, lowThreshold, criticalThreshold) ==
    IF p.Quantity = 0 THEN "out_of_stock"
    ELSE IF p.Quantity <= criticalThreshold THEN "critical"
    ELSE IF p.Quantity <= lowThreshold THEN "low"
    ELSE "normal"

\* func (p *Product) ToResponse() ProductResponse
ToResponse(p) ==
    [ID |-> p.ID, Name |-> p.Name, Quantity |-> p.Quantity,
     Category |-> p.Category, StockStatus |-> GetStockStatus(p, 5, 2)]

RECURSIVE WhereQuantityBelow_WithDeleted(_, _, _)
WhereQuantityBelow_WithDeleted(t, thr, i) ==
    IF i > Len(t) THEN <<>>
    ELSE IF t[i].Quantity < thr
    THEN <<t[i]>> \o WhereQuantityBelow_WithDeleted(t, thr, i + 1)
    ELSE WhereQuantityBelow_WithDeleted(t, thr, i + 1)

RECURSIVE WhereQuantityBelow(_, _, _)
\* ps.db.Where("quantity < ?", threshold).Find(&products): the rows from
\* the i-th on that are not soft-deleted and have quantity < threshold.
WhereQuantityBelow(t, thr, i) ==
    IF i > Len(t) THEN <<>>
    ELSE IF ~t[i].Deleted /\ t[i].Quantity < thr
    THEN <<t[i]>> \o WhereQuantityBelow(t, thr, i + 1)
    ELSE WhereQuantityBelow(t, thr, i + 1)

\* func (ps *ProductService) GetProductByID(id uint)
GetProductByID(t, id) ==
    IF First(t, id) = Nil THEN [product |-> Nil, err |-> Ptr("product not found")]
    ELSE [product |-> Ptr(ToResponse(Deref(First(t, id)))), err |-> Nil]

LowStockThreshold_NoDefault(thr) == thr

\* if threshold <= 0 { threshold = 5 }
LowStockThreshold(thr) ==
    IF thr <= 0 THEN LowStockDefaultThreshold ELSE thr

\* func (ps *ProductService) GetLowStockProducts(threshold int)
GetLowStockProducts(t, thr, dbOK) ==
    IF ~dbOK
    THEN [products |-> <<>>, err |-> Ptr("failed to fetch low stock products")]
    ELSE [products |->
              [k \in 1..Len(WhereQuantityBelow(t, LowStockThreshold(thr), 1)) |->
                  ToResponse(WhereQuantityBelow(t, LowStockThreshold(thr), 1)[k])],
          err |-> Nil]

\* The threshold the GetLowStockProducts handler passes on.
LowStockHandlerThreshold(param) ==
    IF param # <<>> /\ Atoi(param).ok /\ Atoi(param).val > 0 THEN Atoi(param).val
    ELSE LowStockHandlerDefault

\* func (pc *ProductController) GetLowStockProducts(c)
ControllerGetLowStockProducts(t, param, dbOK) ==
    IF GetLowStockProducts(t, LowStockHandlerThreshold(param), dbOK).err # Nil
    THEN Answer(t, StatusInternalServerError, "Failed to fetch low stock products")
    ELSE Answer(t, StatusOK,
                [products |-> GetLowStockProducts(t, LowStockHandlerThreshold(param), dbOK).products,
                 total |-> Len(GetLowStockProducts(t, LowStockHandlerThreshold(param), dbOK).products),
                 threshold |-> LowStockHandlerThreshold(param)])

(***************************************************************************)
(* SpecHTTP: requests to the product routes, served one after the other    *)
(***************************************************************************)
\* What a request to a route behind RequireAuth is answered: by the
\* middleware, or by the handler, whose answer r is.
Guarded(authHeader, secret, t, r) ==
    IF RequireAuth(authHeader, secret).next THEN r
    ELSE Answer(t, RequireAuth(authHeader, secret).status,
                RequireAuth(authHeader, secret).error)

\* The table t holds a row of key id that is not deleted.
Visible(t, id) == \E k \in 1..Len(t) : t[k].ID = id /\ ~t[k].Deleted

\* The record of a request: its route, Authorization header and threshold
\* parameter, the threshold the service was called with, whether the
\* route's handler was invoked, the status and body of the answer and
\* whether it left the table changed; and its id path parameter, its bound
\* body, whether the database worked, and whether the row the path
\* parameter names was in the table, not deleted, when the request arrived.
Exchange(route, authHeader, param, arg, handled, t, r, idParam, request, dbOK) ==
    Ptr([route |-> route, header |-> authHeader, param |-> param, arg |-> arg,
         handled |-> handled, status |-> r.status, body |-> r.body,
         changed |-> r.store # t,
         idParam |-> idParam, request |-> request, dbOK |-> dbOK,
         existed |-> ParseUint(idParam).ok /\ Visible(t, ParseUint(idParam).val)])

\* POST /products
RoutePostProducts(authHeader, body, dbOK) ==
    /\ panicked = FALSE
    /\ pc = "idle"
    /\ Len(store) < MaxProducts
    /\ LET r == Guarded(authHeader, env.JWT_SECRET, store,
                        ControllerCreateProduct(store, body, dbOK))
       IN  /\ store' = r.store
           /\ exchange' = Exchange("POST /products", authHeader, <<>>, 0,
                                   RequireAuth(authHeader, env.JWT_SECRET).next,
                                   store, r, <<>>, body, dbOK)
    /\ UNCHANGED <<genVars, evalVars, recorded, env, svcVars>>

\* PUT /products/:id
RoutePutProduct(authHeader, idParam, body, dbOK) ==
    /\ panicked = FALSE
    /\ pc = "idle"
    /\ LET r == Guarded(authHeader, env.JWT_SECRET, store,
                        ControllerUpdateProduct(store, idParam, body, dbOK))
       IN  /\ store' = r.store
           /\ exchange' = Exchange("PUT /products/:id", authHeader, <<>>, 0,
                                   RequireAuth(authHeader, env.JWT_SECRET).next,
                                   store, r, idParam, body, dbOK)
    /\ UNCHANGED <<genVars, evalVars, recorded, env, svcVars>>

\* DELETE /products/:id
RouteDeleteProduct(authHeader, idParam, dbOK) ==
    /\ panicked = FALSE
    /\ pc = "idle"
    /\ LET r == Guarded(authHeader, env.JWT_SECRET, store,
                        ControllerDeleteProduct(store, idParam, dbOK))
       IN  /\ store' = r.store
           /\ exchange' = Exchange("DELETE /products/:id", authHeader, <<>>, 0,
                                   RequireAuth(authHeader, env.JWT_SECRET).next,
                                   store, r, idParam, Nil, dbOK)
    /\ UNCHANGED <<genVars, evalVars, recorded, env, svcVars>>

\* PUT /products/:id/stock
RoutePutStock(authHeader, idParam, body, dbOK) ==
    /\ panicked = FALSE
    /\ pc = "idle"
    /\ LET r == Guarded(authHeader, env.JWT_SECRET, store,
                        ControllerUpdateStock(store, idParam, body, dbOK))
       IN  /\ store' = r.store
           /\ exchange' = Exchange("PUT /products/:id/stock", authHeader, <<>>, 0,
                                   RequireAuth(authHeader, env.JWT_SECRET).next,
                                   store, r, idParam, body, dbOK)
    /\ UNCHANGED <<genVars, evalVars, recorded, env, svcVars>>

\* GET /products/alerts: behind the middleware, the GenerateAlerts handler
\* starts; its answer is the variable response.
RouteGetAlerts(authHeader, param) ==
    /\ panicked = FALSE
    /\ pc = "idle"
    /\ IF RequireAuth(authHeader, env.JWT_SECRET).next
       THEN /\ BeginGenerateAlerts(param)
            /\ exchange' = Exchange("GET /products/alerts", authHeader, param,
                                    HandlerThreshold(param), TRUE, store,
                                    Answer(store, 0, ""), <<>>, Nil, TRUE)
       ELSE /\ exchange' = Exchange("GET /products/alerts", authHeader, param, 0,
                                    FALSE, store,
                                    Guarded(authHeader, env.JWT_SECRET, store,
                                            Answer(store, 0, "")),
                                    <<>>, Nil, TRUE)
            /\ UNCHANGED <<store, genVars, evalVars, recorded, env, svcVars>>

\* GET /products/low-stock, a route without middleware
RouteGetLowStock(param, dbOK) ==
    /\ panicked = FALSE
    /\ pc = "idle"
    /\ exchange' = Exchange("GET /products/low-stock", <<>>, param,
                            LowStockHandlerThreshold(param), TRUE, store,
                            ControllerGetLowStockProducts(store, param, dbOK),
                            <<>>, Nil, dbOK)
    /\ UNCHANGED <<store, genVars, evalVars, recorded, env, svcVars>>

\* A caller other than the handler calls the service's GetLowStockProducts.
CallGetLowStockProducts(t, dbOK) ==
    /\ panicked = FALSE
    /\ pc = "idle"
    /\ exchange' = Exchange("GetLowStockProducts", <<>>, <<>>, t, TRUE, store,
                            Answer(store,
                                   IF dbOK THEN StatusOK ELSE StatusInternalServerError,
                                   GetLowStockProducts(store, t, dbOK)),
                            <<>>, Nil, dbOK)
    /\ UNCHANGED <<store, genVars, evalVars, recorded, env, svcVars>>

\* The Authorization headers of the requests: none, a token without scheme,
\* another scheme, "Bearer " without token, and "Bearer " with each token.
AuthHeaders ==
    {<<>>, <<"tok.valid">>, <<"Basic ", "tok.valid">>, <<"Bearer ">>}
        \cup {<<"Bearer ", tok>> : tok \in Tokens}

\* The threshold parameters of the requests for alerts.
AlertParams == {<<>>, <<"7">>}

\* The id path parameters: the keys of the rows there can be, and no number.
IdParams ==
    {<<c>> : c \in {d \in DOMAIN DigitVal : DigitVal[d] \in ProductIDs}} \cup {<<"x">>}

\* The bodies of a create request for the next row, or of an update of row
\* id: unbindable, without name, with a negative price or quantity, and good
\* ones.
ProductBodies(id) ==
    {Nil,
     Ptr(ProductRequest(<<>>, CategoryOf(id), 5, 10)),
     Ptr(ProductRequest(NameOf(id), CategoryOf(id), 5, 0 - 1)),
     Ptr(ProductRequest(NameOf(id), CategoryOf(id), 0 - 1, 10))}
        \cup {Ptr(ProductRequest(NameOf(id), CategoryOf(id), q, 10)) : q \in Quantities}

StockBodies == {Nil} \cup {Ptr([Quantity |-> q]) : q \in Quantities \cup {0 - 1}}

\* The key an id path parameter names, 0 when it names none.
IdOf(idParam) == IF ParseUint(idParam).ok THEN ParseUint(idParam).val ELSE 0

InitHTTP ==
    /\ store = <<>>
    /\ GenIdle
    /\ EvalIdle
    /\ recorded = Nil
    /\ env \in {[JWT_SECRET |-> secret] : secret \in {"", "k1"}}
    /\ exchange = Nil
    /\ SvcIdle

\* The requests sent to a protected route. Under the header with the
\* server's own valid token: every path parameter with every body while the
\* database works, and one request while it does not. Under each other
\* header: one request.
OwnHeader == <<"Bearer ", "tok.valid">>

Requests(idParams, bodies) ==
    {[header |-> OwnHeader, idParam |-> i, body |-> b, dbOK |-> TRUE] :
        i \in idParams, b \in bodies}
    \cup {[header |-> OwnHeader, idParam |-> CHOOSE i \in idParams : TRUE,
           body |-> CHOOSE b \in bodies : b # Nil, dbOK |-> FALSE]}
    \cup {[header |-> h, idParam |-> CHOOSE i \in idParams : TRUE,
           body |-> CHOOSE b \in bodies : b # Nil, dbOK |-> TRUE] :
             h \in AuthHeaders \ {OwnHeader}}

\* The requests sent to PUT /products/:id: those for the first row, and
\* for each other path parameter every body under the server's own token.
PutRequests(idParam) ==
    IF idParam = <<"1">>
    THEN Requests({idParam}, ProductBodies(IdOf(idParam)))
    ELSE {rq \in Requests({idParam}, ProductBodies(IdOf(idParam))) :
             rq.header = OwnHeader /\ rq.dbOK}

\* The steps of the goroutine that serves a request for alerts.
HandlerCaller ==
    \/ NormalizeThreshold
    \/ \E ok \in BOOLEAN : FetchProducts(ok)
    \/ MakeChannel
    \/ DispatchUnit
    \/ SpawnCloser
    \/ ReceiveAlert
    \/ RangeExit
    \/ HandlerRespond

NextHTTP ==
    \/ \E rq \in Requests({<<>>}, ProductBodies(Len(store) + 1)) :
          RoutePostProducts(rq.header, rq.body, rq.dbOK)
    \/ \E idParam \in IdParams :
          \E rq \in PutRequests(idParam) :
              RoutePutProduct(rq.header, rq.idParam, rq.body, rq.dbOK)
    \/ \E rq \in Requests(IdParams, {Ptr([Quantity |-> 0])}) :
          RouteDeleteProduct(rq.header, rq.idParam, rq.dbOK)
    \/ \E rq \in Requests(IdParams, StockBodies) :
          RoutePutStock(rq.header, rq.idParam, rq.body, rq.dbOK)
    \/ \E rq \in Requests(AlertParams, {Ptr([Quantity |-> 0])}) :
          RouteGetAlerts(rq.header, rq.idParam)
    \/ \E param \in Params :
          \E dbOK \in (IF param = <<>> THEN BOOLEAN ELSE {TRUE}) :
              RouteGetLowStock(param, dbOK)
    \/ \E t \in Thresholds :
          \E dbOK \in (IF t = 0 THEN BOOLEAN ELSE {TRUE}) :
              CallGetLowStockProducts(t, dbOK)
    \/ HandlerCaller
    \/ \E i \in ProductIDs : StoreUnit(i)
    \/ Closer
    \/ Reset

SpecHTTP == InitHTTP /\ [][NextHTTP]_vars

\* The Authorization header carries no token this server accepts: it is
\* absent, does not start with "Bearer ", has nothing after it, or its token
\* fails ValidateJWT.
BadHeader(h) ==
    \/ h = <<>>
    \/ Head(h) # "Bearer "
    \/ Tail(h) = <<>>
    \/ ValidateJWT(Tail(h), env.JWT_SECRET).err # Nil

ProtectedRoutes ==
    {"GET /products/alerts", "POST /products", "PUT /products/:id",
     "PUT /products/:id/stock", "DELETE /products/:id"}

\* C18: a request to a protected product route whose Authorization header
\* is absent, lacks the "Bearer " prefix, has an empty token or a token that
\* fails validation is answered 401 without the route's handler being
\* invoked and without a change to the table; the handler is invoked only
\* for a header whose token passed validation, and a call of the alert
\* service is in progress only after such a request.
C18_ProtectedRoutesNeedToken ==
    /\ exchange # Nil /\ Deref(exchange).route \in ProtectedRoutes =>
          /\ BadHeader(Deref(exchange).header) =>
                /\ Deref(exchange).status = StatusUnauthorized
                /\ ~Deref(exchange).handled
                /\ ~Deref(exchange).changed
          /\ Deref(exchange).handled => ~BadHeader(Deref(exchange).header)
    /\ pc # "idle" =>
          /\ exchange # Nil
          /\ Deref(exchange).route = "GET /products/alerts"
          /\ Deref(exchange).handled
          /\ ~BadHeader(Deref(exchange).header)

\* A deletion with an expired token was answered 401 while the table holds
\* a product that is not deleted.
C18_Witness ==
    /\ exchange # Nil
    /\ Deref(exchange).route = "DELETE /products/:id"
    /\ Deref(exchange).header = <<"Bearer ", "tok.expired">>
    /\ Deref(exchange).status = StatusUnauthorized
    /\ env.JWT_SECRET = "k1"
    /\ \E k \in 1..Len(store) : ~store[k].Deleted

\* The threshold GetLowStockProducts selects with, for the threshold it was
\* called with.
LowStockEffective(t) == IF t <= 0 THEN 5 ELSE t

\* The keys of the rows of the table that are not deleted and have a
\* quantity below t.
LowStockIDs(t) ==
    {store[k].ID : k \in {j \in 1..Len(store) :
                              ~store[j].Deleted /\ store[j].Quantity < t}}

\* The products in the answer of GetLowStockProducts are, one each and with
\* their stored quantity, the rows that are not deleted and have a quantity
\* below threshold t.
LowStockAnswerIs(ps, t) ==
    /\ {ps[k].ID : k \in 1..Len(ps)} = LowStockIDs(LowStockEffective(t))
    /\ Cardinality(LowStockIDs(LowStockEffective(t))) = Len(ps)
    /\ \A k \in 1..Len(ps) :
          \E j \in 1..Len(store) :
              /\ store[j].ID = ps[k].ID
              /\ store[j].Quantity = ps[k].Quantity
              /\ store[j].Name = ps[k].Name

\* C19: a successful GetLowStockProducts(threshold) returns exactly the
\* rows that are not deleted and have quantity < threshold, with 5 for a
\* threshold <= 0; the handler calls it with the threshold parameter when
\* that is a positive integer and with 5 otherwise; neither changes the
\* table.
C19_LowStockProducts ==
    /\ (exchange # Nil /\ Deref(exchange).route = "GetLowStockProducts") =>
          /\ ~Deref(exchange).changed
          /\ Deref(exchange).status = StatusOK =>
                LowStockAnswerIs(Deref(exchange).body.products, Deref(exchange).arg)
    /\ (exchange # Nil /\ Deref(exchange).route = "GET /products/low-stock") =>
          /\ ~Deref(exchange).changed
          /\ Deref(exchange).arg =
                 (IF Atoi(Deref(exchange).param).ok /\ Atoi(Deref(exchange).param).val > 0
                  THEN Atoi(Deref(exchange).param).val ELSE 5)
          /\ Deref(exchange).status = StatusOK =>
                /\ LowStockAnswerIs(Deref(exchange).body.products, Deref(exchange).arg)
                /\ Deref(exchange).body.total = Len(Deref(exchange).body.products)
                /\ Deref(exchange).body.threshold = Deref(exchange).arg

\* GET /products/low-stock?threshold=-3 answered with the one product that
\* is out of stock while the table also holds a deleted one.
C19_Witness ==
    /\ exchange # Nil
    /\ Deref(exchange).route = "GET /products/low-stock"
    /\ Deref(exchange).param = <<"-", "3">>
    /\ Deref(exchange).status = StatusOK
    /\ Deref(exchange).body.total = 1
    /\ \E k \in 1..Len(store) : store[k].Deleted /\ store[k].Quantity = 0
    /\ \E k \in 1..Len(store) : ~store[k].Deleted /\ store[k].Quantity = 0

(***************************************************************************)
(* Further properties of GenerateAlertsWithConcurrency                     *)
(***************************************************************************)
\* Alert a carries the id, name, category and quantity of product p and the
\* threshold t.
AlertIsOf(a, p, t) ==
    /\ a.ProductID = p.ID
    /\ a.Name = p.Name
    /\ a.Category = p.Category
    /\ a.Quantity = p.Quantity
    /\ a.Threshold = t

\* The threshold a call requested with argThreshold works with.
RequestedEffective == IF argThreshold <= 0 THEN 5 ELSE argThreshold

\* C21: the alert a unit produces, and every alert in the channel, in the
\* collection and in the result, carries the id, name, category and
\* quantity of one snapshot product, the one its unit was dispatched with,
\* and the effective threshold of the call (5 for a request <= 0).
C21_AlertOfOwnProduct ==
    /\ \A i \in 1..Len(units) :
          units[i].alert # Nil =>
              AlertIsOf(Deref(units[i].alert), products[i], RequestedEffective)
    /\ alertsChan.made =>
          \A k \in 1..Len(alertsChan.buf) :
              \E i \in 1..Len(units) :
                  /\ units[i].alert = alertsChan.buf[k]
                  /\ AlertIsOf(Deref(alertsChan.buf[k]), products[i], RequestedEffective)
    /\ ReturnedOK =>
          \A k \in 1..Len(Deref(ret).alerts) :
              \E i \in 1..Len(units) :
                  /\ units[i].alert = Ptr(Deref(ret).alerts[k])
                  /\ AlertIsOf(Deref(ret).alerts[k], products[i], RequestedEffective)

\* A call with a requested threshold <= 0 returned the alerts of two
\* products.
C21_Witness ==
    /\ ReturnedOK
    /\ argThreshold <= 0
    /\ Len(Deref(ret).alerts) = 2
    /\ Deref(ret).alerts[1].ProductID # Deref(ret).alerts[2].ProductID
    /\ Deref(ret).alerts[1].Threshold = 5

(***************************************************************************)
(* Properties of the handlers that write                                   *)
(***************************************************************************)
WriteRoutes ==
    {"POST /products", "PUT /products/:id", "PUT /products/:id/stock",
     "DELETE /products/:id"}

\* The last request reached the handler of a writing route.
HandledWrite ==
    /\ exchange # Nil
    /\ Deref(exchange).route \in WriteRoutes
    /\ Deref(exchange).handled

\* C22: after any sequence of requests to the handlers CreateProduct,
\* UpdateProduct, UpdateStock and DeleteProduct on a table that started
\* without a negative quantity, no row of the table has a negative
\* quantity; a request whose body carries a negative quantity is answered
\* 400 and leaves the table as it was; and no product of the snapshot a
\* call of GenerateAlertsWithConcurrency fetched, and none a unit
\* evaluates, has a negative quantity.
C22_QuantityNeverNegative ==
    /\ \A k \in 1..Len(store) : store[k].Quantity >= 0
    /\ HandledWrite /\ Deref(exchange).request # Nil
          /\ Deref(Deref(exchange).request).Quantity < 0 =>
             /\ Deref(exchange).status = StatusBadRequest
             /\ ~Deref(exchange).changed
    /\ \A k \in 1..Len(products) : products[k].Quantity >= 0
    /\ \A i \in DOMAIN units : units[i].p.Quantity >= 0
    /\ \A i \in 1..Len(alerts) : alerts[i].Quantity >= 0

\* An update of an existing product with quantity -1 and otherwise good
\* fields was answered 400 "Quantity cannot be negative".
C22_Witness ==
    /\ HandledWrite
    /\ Deref(exchange).route = "PUT /products/:id"
    /\ Deref(exchange).existed
    /\ Deref(exchange).request # Nil
    /\ Deref(Deref(exchange).request).Quantity < 0
    /\ Deref(exchange).body = "Quantity cannot be negative"
    /\ \E k \in 1..Len(store) : ~store[k].Deleted
\* The routes whose handler looks a product up by the id of the path.
RoutesById == {"PUT /products/:id", "PUT /products/:id/stock", "DELETE /products/:id"}

\* The bound body x.request passes the checks of the handler of x.route.
WellFormed(x) ==
    CASE x.route = "DELETE /products/:id" -> TRUE
      [] x.route = "PUT /products/:id/stock" ->
            x.request # Nil /\ Deref(x.request).Quantity >= 0
      [] OTHER ->
            /\ x.request # Nil
            /\ Deref(x.request).Name # <<>>
            /\ Deref(x.request).Category # <<>>
            /\ Deref(x.request).Price >= 0
            /\ Deref(x.request).Quantity >= 0

\* The keys a request can name: those of the rows there can be, and the
\* first key no row can have.
NameableIDs == 1..(MaxProducts + 1)

\* C23: UpdateProduct, UpdateStock and DeleteProduct called with an id
\* that is not in the table, because no row was created under it or
\* because its row is deleted, return the error "product not found" and
\* the table as it was; and a well-formed request with such an id to
\* PUT /products/:id, PUT /products/:id/stock or DELETE /products/:id,
\* the database working, is answered 404 "Product not found" and leaves
\* the table unchanged.
C23_UnknownIdNotFound ==
    /\ \A id \in NameableIDs :
          ~Visible(store, id) =>
             /\ \A q \in Quantities :
                   /\ UpdateProduct(store, id,
                                    ProductRequest(NameOf(id), CategoryOf(id), q, 10))
                         = [store |-> store, changed |-> FALSE,
                            err |-> Ptr("product not found")]
                   /\ UpdateStock(store, id, q)
                         = [store |-> store, changed |-> FALSE,
                            err |-> Ptr("product not found")]
             /\ DeleteProduct(store, id)
                   = [store |-> store, changed |-> FALSE,
                      err |-> Ptr("product not found")]
    /\ HandledWrite /\ Deref(exchange).route \in RoutesById
          /\ ParseUint(Deref(exchange).idParam).ok
          /\ ~Deref(exchange).existed
          /\ Deref(exchange).dbOK
          /\ WellFormed(Deref(exchange)) =>
             /\ Deref(exchange).status = StatusNotFound
             /\ Deref(exchange).body = "Product not found"
             /\ ~Deref(exchange).changed

\* A well-formed stock update that named a deleted row was answered 404
\* while the table holds another row, not deleted.
C23_Witness ==
    /\ HandledWrite
    /\ Deref(exchange).route = "PUT /products/:id/stock"
    /\ WellFormed(Deref(exchange))
    /\ Deref(exchange).dbOK
    /\ ~Deref(exchange).existed
    /\ \E k \in 1..Len(store) :
          store[k].ID = IdOf(Deref(exchange).idParam) /\ store[k].Deleted
    /\ \E k \in 1..Len(store) : ~store[k].Deleted
    /\ Deref(exchange).status = StatusNotFound
(***************************************************************************)
(* The alerts and the low-stock list                                       *)
(***************************************************************************)
\* The ids of the products GetLowStockProducts returns for the table t and
\* the threshold thr.
LowStockListIDs(t, thr) ==
    {GetLowStockProducts(t, thr, TRUE).products[k].ID :
        k \in 1..Len(GetLowStockProducts(t, thr, TRUE).products)}

\* The ids of the rows ps.db.Find returns from t for which a unit of a
\* call with threshold thr obtains an alert.
UnitAlertIDs(t, thr) ==
    {Find(t)[k].ID :
        k \in {j \in 1..Len(Find(t)) :
                  GenerateAlert(Find(t)[j], EffectiveThreshold(thr), 1) # Nil}}

\* C27: over the same table and with the same threshold, the product ids
\* of the alerts GenerateAlertsWithConcurrency returns are the product ids
\* GetLowStockProducts returns: for the call that has returned, and, for
\* every threshold including those <= 0, for what the units evaluate.
C27_AlertsMatchLowStock ==
    /\ ReturnedOK =>
          AlertIDs(Deref(ret).alerts) = LowStockListIDs(store, argThreshold)
    /\ \A thr \in Thresholds : UnitAlertIDs(store, thr) = LowStockListIDs(store, thr)

\* A call returned one alert over a table with three kinds of row: one
\* below the threshold, one at the threshold, and the low-stock list for
\* the same threshold has one product too.
C27_Witness ==
    /\ ReturnedOK
    /\ Len(Deref(ret).alerts) = 1
    /\ Len(store) = 2
    /\ \E k \in 1..Len(store) : ~store[k].Deleted /\ store[k].Quantity = argThreshold
    /\ \E k \in 1..Len(store) : ~store[k].Deleted /\ store[k].Quantity < argThreshold
    /\ LowStockListIDs(store, argThreshold) = AlertIDs(Deref(ret).alerts)
(***************************************************************************)
(* Deleted products                                                        *)
(***************************************************************************)
\* The keys of the rows of the table that are deleted.
DeletedIDs == {store[k].ID : k \in {j \in 1..Len(store) : store[j].Deleted}}

\* The ids of the products in the answer of the last request, when it was
\* a request for the low-stock list that succeeded.
ListedIDs ==
    IF /\ exchange # Nil
       /\ Deref(exchange).route \in {"GET /products/low-stock", "GetLowStockProducts"}
       /\ Deref(exchange).status = StatusOK
    THEN {Deref(exchange).body.products[k].ID :
             k \in 1..Len(Deref(exchange).body.products)}
    ELSE {}

\* No product that is deleted is visible.
DeletedInvisible ==
    /\ HandledWrite /\ Deref(exchange).route = "DELETE /products/:id"
          /\ Deref(exchange).status = StatusOK =>
             IdOf(Deref(exchange).idParam) \in DeletedIDs
    /\ \A id \in DeletedIDs :
          /\ GetProductByID(store, id) =
                [product |-> Nil, err |-> Ptr("product not found")]
          /\ DeleteProduct(store, id).err = Ptr("product not found")
          /\ DeleteProduct(store, id).store = store
          /\ \A k \in 1..Len(Find(store)) : Find(store)[k].ID # id
          /\ \A thr \in Thresholds \cup {7} : id \notin LowStockListIDs(store, thr)
          /\ id \notin ListedIDs
          /\ id \notin SnapshotIDs
          /\ \A i \in 1..Len(alerts) : alerts[i].ProductID # id
          /\ ReturnedOK => id \notin AlertIDs(Deref(ret).alerts)

\* A row that is deleted stays in the table, deleted.
DeletedStays ==
    \A k \in 1..Len(store) :
       store[k].Deleted =>
          /\ k <= Len(store')
          /\ store'[k].ID = store[k].ID
          /\ store'[k].Deleted

OtherFields(t) ==
    [k \in 1..Len(t) |-> [Name |-> t[k].Name, Category |-> t[k].Category]]

\* The requests UpdateProduct is called with for row id.
RenameRequests(id) ==
    {ProductRequest(<<"renamed", id>>, <<"moved", id>>, q, 10) : q \in RestockQuantities}

InitWriters ==
    /\ store \in Stores
    /\ GenIdle
    /\ EvalIdle
    /\ recorded = Nil
    /\ HTTPIdle
    /\ calls = [g \in Procs |-> NoCall]
    /\ written = OtherFields(store)
    /\ stats = NoStats
    /\ users = <<>>
    /\ regs = [g \in Procs |-> NoRegistration]
    /\ other = NoInvocation

\* UpdateStock(id, newQuantity) up to its Save: db.First(&product, id),
\* the return of "product not found", product.Quantity = newQuantity.
UpdateStockFirst(g, id, newQuantity) ==
    /\ calls[g].pc = "idle"
    /\ calls' = [calls EXCEPT ![g] =
          IF First(store, id) = Nil
          THEN [op |-> "UpdateStock", pc |-> "return", product |-> ZeroProduct]
          ELSE [op |-> "UpdateStock", pc |-> "save",
                product |-> [Deref(First(store, id)) EXCEPT !.Quantity = newQuantity]]]
    /\ UNCHANGED <<store, genVars, evalVars, recorded, httpVars, written, stats,
                   users, regs, other>>

\* UpdateProduct(id, req) up to its Save: db.First(&product, id), the
\* return of "product not found", the assignments of req's fields.
UpdateProductFirst(g, id, req) ==
    /\ calls[g].pc = "idle"
    /\ calls' = [calls EXCEPT ![g] =
          IF First(store, id) = Nil
          THEN [op |-> "UpdateProduct", pc |-> "return", product |-> ZeroProduct]
          ELSE [op |-> "UpdateProduct", pc |-> "save",
                product |-> [Deref(First(store, id)) EXCEPT
                                !.Name = req.Name,
                                !.Quantity = req.Quantity,
                                !.Category = req.Category]]]
    /\ UNCHANGED <<store, genVars, evalVars, recorded, httpVars, written, stats,
                   users, regs, other>>

\* ps.db.Save(&product) of either call: every column of the row is written
\* from the local product. written follows what UpdateProduct writes.
CallSave(g) ==
    /\ calls[g].pc = "save"
    /\ store' = Save(store, calls[g].product)
    /\ written' =
          IF calls[g].op = "UpdateProduct"
          THEN [written EXCEPT ![calls[g].product.ID] =
                   [Name |-> calls[g].product.Name,
                    Category |-> calls[g].product.Category]]
          ELSE written
    /\ calls' = [calls EXCEPT ![g].pc = "return"]
    /\ UNCHANGED <<genVars, evalVars, recorded, httpVars, stats, users, regs, other>>

\* response := product.ToResponse(); return &response, nil; or the return
\* of the error.
CallReturn(g) ==
    /\ calls[g].pc = "return"
    /\ calls' = [calls EXCEPT ![g] = NoCall]
    /\ UNCHANGED <<store, genVars, evalVars, recorded, httpVars, written, stats,
                   users, regs, other>>

NextWriters ==
    \/ \E g \in Procs, id \in ProductIDs, q \in UpdateQuantities :
          UpdateStockFirst(g, id, q)
    \/ \E g \in Procs, id \in ProductIDs :
          \E req \in RenameRequests(id) : UpdateProductFirst(g, id, req)
    \/ \E g \in Procs : CallSave(g)
    \/ \E g \in Procs : CallReturn(g)

SpecWriters == InitWriters /\ [][NextWriters]_vars

\* C26: when a call of UpdateStock has saved, the name and category of
\* every row, the one it updated included, are the ones last written by
\* the other operations: UpdateStock has changed nothing but the quantity
\* of its row, also when an UpdateProduct of the same row ran between its
\* First and its Save.
C26_StockKeepsOtherFields ==
    \A g \in Procs :
       calls[g].op = "UpdateStock" /\ calls[g].pc = "return" =>
          OtherFields(store) = written
(***************************************************************************)
(* SpecStats: GetInventoryStats, whose queries are separate statements on  *)
(* the database, while other requests write to the products table.         *)
(***************************************************************************)
\* ps.db.Model(&models.Product{}).Count(&totalProducts)
StatsCountTotal ==
    /\ stats.pc = "idle"
    /\ stats' = [NoStats EXCEPT !.pc = "value", !.totalProducts = Len(Find(store))]
    /\ UNCHANGED <<store, genVars, evalVars, recorded, httpVars, calls, written,
                   users, regs, other>>

\* ...Select("SUM(price * quantity)").Scan(&totalValue)
StatsTotalValue ==
    /\ stats.pc = "value"
    /\ stats' = [stats EXCEPT !.pc = "low"]
    /\ UNCHANGED <<store, genVars, evalVars, recorded, httpVars, calls, written,
                   users, regs, other>>

\* ...Where("quantity < ?", 5).Count(&lowStockCount)
StatsCountLowStock ==
    /\ stats.pc = "low"
    /\ stats' = [stats EXCEPT !.pc = "out",
                              !.lowStockCount = Len(WhereQuantityBelow(store, 5, 1))]
    /\ UNCHANGED <<store, genVars, evalVars, recorded, httpVars, calls, written,
                   users, regs, other>>

\* ...Where("quantity = 0").Count(&outOfStockCount)
StatsCountOutOfStock ==
    /\ stats.pc = "out"
    /\ stats' = [stats EXCEPT
                    !.pc = "categories",
                    !.outOfStockCount =
                        Cardinality({k \in 1..Len(Find(store)) :
                                        Find(store)[k].Quantity = 0})]
    /\ UNCHANGED <<store, genVars, evalVars, recorded, httpVars, calls, written,
                   users, regs, other>>

\* ...Distinct("category").Pluck("category", &categories); return stats, nil
StatsCategories ==
    /\ stats.pc = "categories"
    /\ stats' = [stats EXCEPT
                    !.pc = "return",
                    !.categories = {Find(store)[k].Category : k \in 1..Len(Find(store))}]
    /\ UNCHANGED <<store, genVars, evalVars, recorded, httpVars, calls, written,
                   users, regs, other>>

\* A query of the call fails: return nil, fmt.Errorf(...)
StatsQueryFails ==
    /\ stats.pc \in {"idle", "value", "low", "out", "categories"}
    /\ stats' = [NoStats EXCEPT !.pc = "return",
                                !.err = Ptr("failed to fetch inventory statistics")]
    /\ UNCHANGED <<store, genVars, evalVars, recorded, httpVars, calls, written,
                   users, regs, other>>

\* The caller has the result; the locals go out of scope.
StatsReturn ==
    /\ stats.pc = "return"
    /\ stats' = NoStats
    /\ UNCHANGED <<store, genVars, evalVars, recorded, httpVars, calls, written,
                   users, regs, other>>

NextStats ==
    \/ StatsCountTotal
    \/ StatsTotalValue
    \/ StatsCountLowStock
    \/ StatsCountOutOfStock
    \/ StatsCategories
    \/ StatsQueryFails
    \/ StatsReturn
    \/ \E q \in Quantities : WriterCreateProduct(q)
    \/ \E id \in ProductIDs, q \in Quantities : WriterUpdateProduct(id, q)
    \/ \E id \in ProductIDs, q \in Quantities : WriterUpdateStock(id, q)
    \/ \E id \in ProductIDs : WriterDeleteProduct(id)

SpecStats == Init /\ [][NextStats]_vars

\* C29: every result of GetInventoryStats has out_of_stock_count <=
\* low_stock_count <= total_products and categories_count <=
\* total_products, also when products are created, updated or deleted
\* between its queries.
C29_StatsConsistent ==
    stats.pc = "return" /\ stats.err = Nil =>
        /\ stats.outOfStockCount <= stats.lowStockCount
        /\ stats.lowStockCount <= stats.totalProducts
        /\ Cardinality(stats.categories) <= stats.totalProducts
(***************************************************************************)
(* SpecRegister: POST /auth/register served by two goroutines              *)
(***************************************************************************)
StatusConflict == 409
MinPasswordLen == 6

\* The bodies of the registration requests: unbindable, without email,
\* with a short password, and well-formed ones for two emails. A password
\* is the sequence of its characters.
Emails == {<<"a@x">>, <<"b@x">>}
GoodPassword == <<"s", "e", "c", "r", "e", "t">>
UserBodies ==
    {Nil, Ptr([Email |-> <<>>, Password |-> GoodPassword]),
     Ptr([Email |-> <<"a@x">>, Password |-> <<"a", "b", "c">>])}
        \cup {Ptr([Email |-> e, Password |-> GoodPassword]) : e \in Emails}

\* as.db.Where("email = ?", email).First(&existingUser): the row, or nil
\* for an error.
FirstUserByEmail(t, email) ==
    IF \E k \in 1..Len(t) : t[k].Email = email
    THEN Ptr(t[CHOOSE k \in 1..Len(t) : t[k].Email = email])
    ELSE Nil

CreateUser_NoUniqueIndex(t, user) ==
    [users |-> Append(t, [ID |-> Len(t) + 1, Email |-> user.Email,
                          Password |-> <<"bcrypt">> \o user.Password]),
     err |-> Nil]

\* as.db.Create(&user): BeforeCreate hashes the password; the insert fails
\* on the unique index of users.email when a row has that email.
CreateUser(t, user) ==
    IF \E k \in 1..Len(t) : t[k].Email = user.Email
    THEN [users |-> t, err |-> Ptr("duplicate key value violates unique constraint")]
    ELSE [users |-> Append(t, [ID |-> Len(t) + 1, Email |-> user.Email,
                               Password |-> <<"bcrypt">> \o user.Password]),
          err |-> Nil]

\* The answer of a handler.
Answered(body, status, text) ==
    [pc |-> "answered", req |-> body, status |-> status, body |-> text]

\* func (ac *AuthController) Register(c) up to the first statement of
\* RegisterUser on the database: the checks of the body, and the query
\* for a user with the email.
RegisterCheck(g, body) ==
    /\ regs[g].pc = "idle"
    /\ regs' = [regs EXCEPT ![g] =
          IF body = Nil THEN Answered(body, StatusBadRequest, "Invalid request format")
          ELSE IF Deref(body).Email = <<>>
          THEN Answered(body, StatusBadRequest, "Email is required")
          ELSE IF Len(Deref(body).Password) < MinPasswordLen
          THEN Answered(body, StatusBadRequest,
                        "Password must be at least 6 characters long")
          ELSE IF FirstUserByEmail(users, Deref(body).Email) # Nil
          THEN Answered(body, StatusConflict, "user already exists")
          ELSE [pc |-> "create", req |-> body, status |-> 0, body |-> ""]]
    /\ UNCHANGED <<store, genVars, evalVars, recorded, httpVars, calls, written,
                   stats, users, other>>

\* as.db.Create(&user) and the answer of the handler: 201, or 500 for an
\* error that is not "user already exists".
RegisterCreate(g) ==
    /\ regs[g].pc = "create"
    /\ LET r == CreateUser(users, Deref(regs[g].req))
       IN  /\ users' = r.users
           /\ regs' = [regs EXCEPT ![g] =
                 IF r.err # Nil
                 THEN Answered(regs[g].req, StatusInternalServerError,
                               "failed to create user")
                 ELSE Answered(regs[g].req, StatusCreated, "User created successfully")]
    /\ UNCHANGED <<store, genVars, evalVars, recorded, httpVars, calls, written,
                   stats, other>>

\* The response is sent; the goroutine serves the next request.
RegisterDone(g) ==
    /\ regs[g].pc = "answered"
    /\ regs' = [regs EXCEPT ![g] = NoRegistration]
    /\ UNCHANGED <<store, genVars, evalVars, recorded, httpVars, calls, written,
                   stats, users, other>>

NextRegister ==
    \/ \E g \in Procs, body \in UserBodies : RegisterCheck(g, body)
    \/ \E g \in Procs : RegisterCreate(g)
    \/ \E g \in Procs : RegisterDone(g)

SpecRegister == Init /\ [][NextRegister]_vars

\* The request that goroutine g has answered is well-formed.
AnsweredWellFormed(g) ==
    /\ regs[g].pc = "answered"
    /\ regs[g].req # Nil
    /\ Deref(regs[g].req).Email # <<>>
    /\ Len(Deref(regs[g].req).Password) >= 6

\* C24: a well-formed registration request is answered 201, and then a
\* user with its email is stored, or 409 "user already exists"; it is
\* answered nothing else, also when two registrations for the same email
\* are served at the same time.
C24_RegisterCreatedOrConflict ==
    \A g \in Procs :
       AnsweredWellFormed(g) =>
          \/ /\ regs[g].status = StatusCreated
             /\ \E k \in 1..Len(users) : users[k].Email = Deref(regs[g].req).Email
          \/ /\ regs[g].status = StatusConflict
             /\ regs[g].body = "user already exists"

\* C30: no two rows of the users table have the same email, and of two
\* registrations for the same email that are answered at the same time at
\* most one is answered 201, whatever the interleaving of the existence
\* checks and the inserts.
C30_UniqueEmails ==
    /\ \A i, j \in 1..Len(users) : users[i].Email = users[j].Email => i = j
    /\ \A g, h \in Procs :
          /\ g # h
          /\ AnsweredWellFormed(g) /\ AnsweredWellFormed(h)
          /\ Deref(regs[g].req).Email = Deref(regs[h].req).Email
          /\ regs[g].status = StatusCreated
          => regs[h].status # StatusCreated

\* Two registrations for the same email both passed the existence check:
\* one was answered 201, the other's insert failed, and the table holds
\* one user with that email beside a user with another email.
C30_Witness ==
    /\ \E g, h \in Procs :
          /\ AnsweredWellFormed(g) /\ AnsweredWellFormed(h)
          /\ Deref(regs[g].req).Email = Deref(regs[h].req).Email
          /\ regs[g].status = StatusCreated
          /\ regs[h].status = StatusInternalServerError
    /\ Len(users) = 2
(***************************************************************************)
(* SpecTwoCalls: two calls of GenerateAlertsWithConcurrency at the same    *)
(* time. alertsChan, wg, alerts and the other variables of the function    *)
(* are locals, one set per call. The variables pc .. fetches are the       *)
(* locals of the call whose goroutines take the next step; other holds the *)
(* locals of the second call, and Switch passes the turn.                  *)
(***************************************************************************)
\* The locals of the call that has the turn.
Locals ==
    [pc |-> pc, entry |-> entry, reqParam |-> reqParam, hThreshold |-> hThreshold,
     argThreshold |-> argThreshold, threshold |-> threshold, products |-> products,
     product |-> product, idx |-> idx, alertsChan |-> alertsChan, wg |-> wg,
     units |-> units, closer |-> closer, alerts |-> alerts, ret |-> ret,
     response |-> response, evaluated |-> evaluated, fetches |-> fetches]

Switch_SharedChannel ==
    /\ panicked = FALSE
    /\ other' = Locals
    /\ pc' = other.pc
    /\ entry' = other.entry
    /\ reqParam' = other.reqParam
    /\ hThreshold' = other.hThreshold
    /\ argThreshold' = other.argThreshold
    /\ threshold' = other.threshold
    /\ products' = other.products
    /\ product' = other.product
    /\ idx' = other.idx
    /\ alertsChan' = alertsChan
    /\ wg' = other.wg
    /\ units' = other.units
    /\ closer' = other.closer
    /\ alerts' = other.alerts
    /\ ret' = other.ret
    /\ response' = other.response
    /\ evaluated' = other.evaluated
    /\ fetches' = other.fetches
    /\ UNCHANGED <<store, panicked, evalVars, recorded, httpVars, calls, written,
                   stats, users, regs>>

\* The scheduler runs the goroutines of the other call: each call goes on
\* with its own locals.
Switch ==
    /\ panicked = FALSE
    /\ other' = Locals
    /\ pc' = other.pc
    /\ entry' = other.entry
    /\ reqParam' = other.reqParam
    /\ hThreshold' = other.hThreshold
    /\ argThreshold' = other.argThreshold
    /\ threshold' = other.threshold
    /\ products' = other.products
    /\ product' = other.product
    /\ idx' = other.idx
    /\ alertsChan' = other.alertsChan
    /\ wg' = other.wg
    /\ units' = other.units
    /\ closer' = other.closer
    /\ alerts' = other.alerts
    /\ ret' = other.ret
    /\ response' = other.response
    /\ evaluated' = other.evaluated
    /\ fetches' = other.fetches
    /\ UNCHANGED <<store, panicked, evalVars, recorded, httpVars, calls, written,
                   stats, users, regs>>

\* The thresholds of the two calls.
TwoCallThresholds == {5, 7}

\* The table the two calls read: one product out of stock, one with five
\* units.
InitTwoCalls ==
    /\ store = <<Product(1, 0), Product(2, 5)>>
    /\ GenIdle
    /\ EvalIdle
    /\ recorded = Nil
    /\ HTTPIdle
    /\ SvcIdle

NextTwoCalls ==
    \/ \E t \in TwoCallThresholds : CallGenerateAlertsWithConcurrency(t)
    \/ ServiceCaller
    \/ \E i \in ProductIDs : StoreUnit(i)
    \/ Closer
    \/ Reset
    \/ Switch

SpecTwoCalls == InitTwoCalls /\ [][NextTwoCalls]_vars

\* The alerts in the channel of the call with locals v and those its
\* caller has received.
Delivered(v) ==
    [k \in 1..Len(v.alertsChan.buf) |-> Deref(v.alertsChan.buf[k])] \o v.alerts

\* The alert a is of a product of the snapshot of the call with locals v,
\* at the threshold of that call.
OwnAlert(v, a) ==
    \E k \in 1..Len(v.products) :
       AlertIsOf(a, v.products[k], IF v.argThreshold <= 0 THEN 5 ELSE v.argThreshold)

\* The call with locals v is as it would be alone.
CallIndependent(v) ==
    /\ \A k \in 1..Len(Delivered(v)) : OwnAlert(v, Delivered(v)[k])
    /\ \A i, j \in 1..Len(Delivered(v)) :
          Delivered(v)[i].ProductID = Delivered(v)[j].ProductID => i = j
    /\ \A i \in 1..Len(v.units) :
          /\ v.units[i].pc \in {"exit", "done"} /\ v.units[i].alert # Nil =>
                \E k \in 1..Len(Delivered(v)) : Delivered(v)[k] = Deref(v.units[i].alert)
          /\ v.units[i].pc = "send" =>
                /\ v.alertsChan.made
                /\ ~v.alertsChan.closed
                /\ Len(v.alertsChan.buf) < v.alertsChan.cap
    /\ v.alertsChan.made => v.alertsChan.cap = Len(v.products)
    /\ v.alertsChan.closed =>
          /\ Len(v.units) = Len(v.products)
          /\ \A i \in 1..Len(v.units) : v.units[i].pc = "done"
    /\ v.wg = Cardinality({i \in 1..Len(v.units) : v.units[i].pc # "done"})
    /\ v.ret # Nil /\ Deref(v.ret).err = Nil =>
          /\ \A k \in 1..Len(Deref(v.ret).alerts) : OwnAlert(v, Deref(v.ret).alerts[k])
          /\ AlertIDs(Deref(v.ret).alerts) =
                {v.products[k].ID :
                    k \in {j \in 1..Len(v.products) :
                              v.products[j].Quantity < v.threshold}}
          /\ Len(Deref(v.ret).alerts) = Cardinality(AlertIDs(Deref(v.ret).alerts))

\* C28: two calls of GenerateAlertsWithConcurrency that run at the same
\* time are independent. Each has its own channel, of the capacity of its
\* own snapshot, and its own join counter, which counts its own unfinished
\* units; an alert published by a unit of a call is in that call's channel
\* or collection and in no other; a call's channel is closed only after
\* its own units are done, a unit about to publish finds its call's
\* channel open with room, and no goroutine panics; and each call returns
\* the alerts of its own snapshot at its own threshold.
C28_CallsIndependent ==
    /\ panicked = FALSE
    /\ CallIndependent(Locals)
    /\ CallIndependent(other)

\* One call has closed its channel and returned its one alert at threshold
\* 5, while a unit of the other call, at threshold 7, is about to publish
\* and another of its alerts waits in its channel.
C28_Witness ==
    /\ other.alertsChan.closed
    /\ other.ret # Nil
    /\ Len(Deref(other.ret).alerts) = 1
    /\ other.threshold = 5
    /\ threshold = 7
    /\ Len(alertsChan.buf) = 1
    /\ \E i \in 1..Len(units) : units[i].pc = "send"
====
